---------------------------- MODULE Spec2Model ----------------------------
(***************************************************************************)
(* State-machine model of the VimeoPlayer single-page application:         *)
(*   - App (src/App.tsx): resolves the location query into a video         *)
(*     reference, synchronously or through the Vimeo oEmbed endpoint.      *)
(*   - UniversalPlayer (src/unnamed/part_000, lines 340-776): the player   *)
(*     component App mounts as VimeoPlayer; cover layout, provider         *)
(*     adapters, state-sync poll, overlay timer.                           *)
(* Strings are sequences of one-character strings. Numbers that the code   *)
(* holds as doubles are modelled exactly: pixel sizes as integers, the     *)
(* aspect ratio as a reduced fraction or NaN.                              *)
(***************************************************************************)
EXTENDS Integers, Sequences, FiniteSets, TLC

(***************************************************************************)
(* Characters and strings                                                  *)
(***************************************************************************)

\* The grave accent (code 96), which the lexer does not take in a string.
Grave == "grave"

\* The printable ASCII characters, code 32 to 126, in code order.
Ascii ==
  <<" ", "!", "\"", "#", "$", "%", "&", "'", "(", ")", "*", "+", ",", "-",
    ".", "/", "0", "1", "2", "3", "4", "5", "6", "7", "8", "9", ":", ";",
    "<", "=", ">", "?", "@", "A", "B", "C", "D", "E", "F", "G", "H", "I",
    "J", "K", "L", "M", "N", "O", "P", "Q", "R", "S", "T", "U", "V", "W",
    "X", "Y", "Z", "[", "\\", "]", "^", "_", Grave, "a", "b", "c", "d", "e",
    "f", "g", "h", "i", "j", "k", "l", "m", "n", "o", "p", "q", "r", "s",
    "t", "u", "v", "w", "x", "y", "z", "{", "|", "}", "~">>

\* One token stands for every character outside ASCII, one for every ASCII
\* control character other than tab, line feed, form feed, carriage return.
NonAscii == "U+"
Control == "^c"

Digits == {"0", "1", "2", "3", "4", "5", "6", "7", "8", "9"}

\* JavaScript white space (\s, String.prototype.trim) within the alphabet.
WhiteSpace == {" ", "\t", "\n", "\r", "\f"}

\* The line terminators the regex dot does not match.
LineTerminators == {"\n", "\r"}

\* The value of a hexadecimal digit, -1 for any other character.
HexVal(c) ==
  CASE c = "0" -> 0 [] c = "1" -> 1 [] c = "2" -> 2 [] c = "3" -> 3
    [] c = "4" -> 4 [] c = "5" -> 5 [] c = "6" -> 6 [] c = "7" -> 7
    [] c = "8" -> 8 [] c = "9" -> 9
    [] c \in {"a", "A"} -> 10 [] c \in {"b", "B"} -> 11
    [] c \in {"c", "C"} -> 12 [] c \in {"d", "D"} -> 13
    [] c \in {"e", "E"} -> 14 [] c \in {"f", "F"} -> 15
    [] OTHER -> -1

\* The character of an ASCII code (0..127).
CharOf(code) ==
  IF code >= 32 /\ code <= 126 THEN Ascii[code - 31]
  ELSE CASE code = 9 -> "\t" [] code = 10 -> "\n" [] code = 12 -> "\f"
         [] code = 13 -> "\r" [] OTHER -> Control

\* The byte that "%XY" at position i of s encodes, -1 when s holds no
\* well-formed escape there.
EscapeAt(s, i) ==
  IF i + 2 <= Len(s) /\ s[i] = "%"
       /\ HexVal(s[i + 1]) >= 0 /\ HexVal(s[i + 2]) >= 0
  THEN 16 * HexVal(s[i + 1]) + HexVal(s[i + 2])
  ELSE -1

\* How many continuation bytes a UTF-8 lead byte announces; -1 for a byte
\* that cannot lead a sequence.
Continuations(b) ==
  IF b >= 194 /\ b <= 223 THEN 1
  ELSE IF b >= 224 /\ b <= 239 THEN 2
  ELSE IF b >= 240 /\ b <= 244 THEN 3
  ELSE -1

\* Marks, in the output of DecodeFrom, the place where decodeURIComponent
\* throws URIError.
URIError == "URIError"

\* decodeURIComponent from position i on; the output ends with URIError
\* where the function throws (a "%" without two hex digits, a byte sequence
\* that is not UTF-8).
RECURSIVE DecodeFrom(_, _)
DecodeFrom(s, i) ==
  IF i > Len(s) THEN <<>>
  ELSE IF s[i] # "%" THEN <<s[i]>> \o DecodeFrom(s, i + 1)
  ELSE
    LET b == EscapeAt(s, i)
        n == Continuations(b)
    IN  IF b < 0 THEN <<URIError>>
        ELSE IF b < 128 THEN <<CharOf(b)>> \o DecodeFrom(s, i + 3)
        ELSE IF n < 0 \/ \E k \in 1..n :
                           LET cb == EscapeAt(s, i + 3 * k)
                           IN  \/ cb < 128 \/ cb > 191
                               \/ k = 1 /\ b = 224 /\ cb < 160
                               \/ k = 1 /\ b = 237 /\ cb > 159
                               \/ k = 1 /\ b = 240 /\ cb < 144
                               \/ k = 1 /\ b = 244 /\ cb > 143
          THEN <<URIError>>
        ELSE <<NonAscii>> \o DecodeFrom(s, i + 3 * (n + 1))

\* decodeURIComponent(s): [ok, val]; ok is FALSE when it throws.
decodeURIComponent(s) ==
  LET out == DecodeFrom(s, 1)
      threw == out # <<>> /\ out[Len(out)] = URIError
  IN  [ok |-> ~threw, val |-> IF threw THEN <<>> ELSE out]

\* String.prototype.trim: white space removed at both ends.
trim(s) ==
  LET keep == {i \in 1..Len(s) : s[i] \notin WhiteSpace}
  IN  IF keep = {} THEN <<>>
      ELSE LET lo == CHOOSE i \in keep : \A j \in keep : i <= j
               hi == CHOOSE i \in keep : \A j \in keep : j <= i
           IN  SubSeq(s, lo, hi)

\* String.prototype.substring(1).
substring1(s) == SubSeq(s, 2, Len(s))

\* s holds the literal lit at position i.
HasAt(s, i, lit) ==
  /\ i >= 1
  /\ i + Len(lit) - 1 <= Len(s)
  /\ \A k \in 1..Len(lit) : s[i + k - 1] = lit[k]

\* String.prototype.includes.
includes(s, lit) == \E i \in 1..Len(s) : HasAt(s, i, lit)

\* Mutation of the digit rule: /^\d$/, a single digit.
IsSingleDigit(s) == Len(s) = 1 /\ s[1] \in Digits

\* /^\d+$/.test(s)
IsDigitsOnly(s) == Len(s) >= 1 /\ \A i \in 1..Len(s) : s[i] \in Digits

\* String(n) for a natural number n.
RECURSIVE NatToString(_)
NatToString(n) ==
  IF n < 10 THEN <<Ascii[n + 17]>>
  ELSE NatToString(n \div 10) \o <<Ascii[(n % 10) + 17]>>

(***************************************************************************)
(* The YouTube pattern of App.tsx line 20:                                 *)
(*  (?:youtube\.com\/(?:[^\/]+\/.+\/|(?:v|e(?:mbed)?)\/|.*[?&]v=)          *)
(*     |youtu\.be\/)([^"&?\/\s]{11})                                       *)
(* matched as a backtracking matcher does: leftmost start, alternatives in *)
(* order, greedy quantifiers.                                              *)
(***************************************************************************)
YoutubeCom == <<"y", "o", "u", "t", "u", "b", "e", ".", "c", "o", "m", "/">>
YoutuBe == <<"y", "o", "u", "t", "u", ".", "b", "e", "/">>
VimeoCom == <<"v", "i", "m", "e", "o", ".", "c", "o", "m">>

\* The length of the captured group: {11}.
YT_ID_LEN == 11

\* [^"&?\/\s]
IsIdChar(c) == c \notin ({"\"", "&", "?", "/"} \cup WhiteSpace)

\* ([^"&?\/\s]{11}) matches at position i.
IdAt(s, i) ==
  /\ i >= 1
  /\ i + YT_ID_LEN - 1 <= Len(s)
  /\ \A k \in i..(i + YT_ID_LEN - 1) : IsIdChar(s[k])

\* The greatest member of a non-empty set of integers.
Max(S) == CHOOSE x \in S : \A y \in S : y <= x
Min(S) == CHOOSE x \in S : \A y \in S : x <= y

\* [^\/]+\/.+\/ from position j, followed by the group: the position of the
\* group, 0 when this alternative fails. [^\/]+ runs to the first "/" (it
\* can stop nowhere else); .+ is greedy, so the last "/" that the group can
\* follow wins.
AltPath(s, j) ==
  LET slashes == {p \in j..Len(s) : s[p] = "/"}
  IN  IF slashes = {} \/ Min(slashes) = j THEN 0
      ELSE LET p == Min(slashes)
               ends == {m \in (p + 2)..Len(s) :
                          /\ s[m] = "/"
                          /\ \A k \in (p + 1)..(m - 1) : s[k] \notin LineTerminators
                          /\ IdAt(s, m + 1)}
           IN  IF ends = {} THEN 0 ELSE Max(ends) + 1

\* (?:v|e(?:mbed)?)\/ from position j, followed by the group.
AltEmbed(s, j) ==
  IF HasAt(s, j, <<"v", "/">>) /\ IdAt(s, j + 2) THEN j + 2
  ELSE IF HasAt(s, j, <<"e", "m", "b", "e", "d", "/">>) /\ IdAt(s, j + 6) THEN j + 6
  ELSE IF HasAt(s, j, <<"e", "/">>) /\ IdAt(s, j + 2) THEN j + 2
  ELSE 0

\* .*[?&]v= from position j, followed by the group: .* is greedy, so the
\* last "?v=" or "&v=" that the group can follow wins.
AltParam(s, j) ==
  LET marks == {m \in j..Len(s) :
                  /\ s[m] \in {"?", "&"}
                  /\ HasAt(s, m + 1, <<"v", "=">>)
                  /\ \A k \in j..(m - 1) : s[k] \notin LineTerminators
                  /\ IdAt(s, m + 3)}
  IN  IF marks = {} THEN 0 ELSE Max(marks) + 3

\* The pattern tried at start position i: the position of the group, 0 when
\* the pattern does not match there.
MatchAt(s, i) ==
  IF HasAt(s, i, YoutubeCom) THEN
    LET j == i + Len(YoutubeCom)
    IN  IF AltPath(s, j) # 0 THEN AltPath(s, j)
        ELSE IF AltEmbed(s, j) # 0 THEN AltEmbed(s, j)
        ELSE AltParam(s, j)
  ELSE IF HasAt(s, i, YoutuBe) /\ IdAt(s, i + Len(YoutuBe)) THEN i + Len(YoutuBe)
  ELSE 0

\* decoded.match(ytRegex): [matched, id], id being ytMatch[1].
ytMatch(s) ==
  LET starts == {i \in 1..Len(s) : MatchAt(s, i) # 0}
  IN  IF starts = {} THEN [matched |-> FALSE, id |-> <<>>]
      ELSE LET g == MatchAt(s, Min(starts))
           IN  [matched |-> TRUE, id |-> SubSeq(s, g, g + YT_ID_LEN - 1)]

(***************************************************************************)
(* Values                                                                  *)
(***************************************************************************)

\* VIDEO_CONFIG.id (src/unnamed/part_001 line 2).
VIDEO_CONFIG_id == <<"1", "1", "5", "7", "0", "0", "9", "9", "4", "6">>

\* The JavaScript null of useState<{id, provider} | null>.
Null == [id |-> <<>>, provider |-> "null"]

\* The default reference: { id: VIDEO_CONFIG.id, provider: 'vimeo' }.
DefaultVideo == [id |-> VIDEO_CONFIG_id, provider |-> "vimeo"]

(***************************************************************************)
(* The queries: values of window.location.search                           *)
(***************************************************************************)
Https == <<"h", "t", "t", "p", "s", ":", "/", "/">>
HttpsWww == <<"h", "t", "t", "p", "s", ":", "/", "/", "w", "w", "w", ".">>
WatchV == <<"w", "a", "t", "c", "h", "?", "v", "=">>
Embed == <<"e", "m", "b", "e", "d", "/">>
VSlash == <<"v", "/">>

\* The YouTube URL forms the pattern is written for, each a prefix that the
\* video id follows.
YtShapes ==
  { YoutubeCom \o WatchV, YoutubeCom \o Embed, YoutubeCom \o VSlash, YoutuBe }

YtIds ==
  { <<"d", "Q", "w", "4", "w", "9", "W", "g", "X", "c", "Q">>,
    <<"a", "-", "b", "_", "c", "1", "d", "2", "e", "3", "f">> }

YtPrefixes == { <<>>, Https, HttpsWww }

\* What follows the id: nothing, "&t=1", "?t=1", or a parameter whose value
\* is itself a URL with a path, "?r=https://a.io/p/some-long-slug".
YtSuffixes ==
  { <<>>, <<"&", "t", "=", "1">>, <<"?", "t", "=", "1">>,
    <<"?", "r", "=", "h", "t", "t", "p", "s", ":", "/", "/", "a", ".", "i",
      "o", "/", "p", "/", "s", "o", "m", "e", "-", "l", "o", "n", "g", "-",
      "s", "l", "u", "g">> }

YtQueries ==
  { <<"?">> \o pre \o shape \o id \o suf :
      pre \in YtPrefixes, shape \in YtShapes, id \in YtIds, suf \in YtSuffixes }

\* ?1157009946
QDefaultId ==
  <<"?", "1", "1", "5", "7", "0", "0", "9", "9", "4", "6">>

\* ?12
QDigits ==
  <<"?", "1", "2">>

\* ?%31%32
QEscapedDigits ==
  <<"?", "%", "3", "1", "%", "3", "2">>

\* ?%2012%20
QPaddedDigits ==
  <<"?", "%", "2", "0", "1", "2", "%", "2", "0">>

\* ?https://vimeo.com/showcase/12345
QVimeoShowcase ==
  <<"?", "h", "t", "t", "p", "s", ":", "/", "/", "v", "i", "m", "e", "o",
    ".", "c", "o", "m", "/", "s", "h", "o", "w", "c", "a", "s", "e", "/",
    "1", "2", "3", "4", "5">>

\* ?vimeo.com/x
QVimeoBare ==
  <<"?", "v", "i", "m", "e", "o", ".", "c", "o", "m", "/", "x">>

\* ?https%3A%2F%2Fvimeo.com%2Fshowcase%2F12345
QVimeoEscaped ==
  <<"?", "h", "t", "t", "p", "s", "%", "3", "A", "%", "2", "F", "%", "2",
    "F", "v", "i", "m", "e", "o", ".", "c", "o", "m", "%", "2", "F", "s",
    "h", "o", "w", "c", "a", "s", "e", "%", "2", "F", "1", "2", "3", "4",
    "5">>

\* ?https%3A%2F%2Fyoutu.be%2FdQw4w9WgXcQ
QYoutubeEscaped ==
  <<"?", "h", "t", "t", "p", "s", "%", "3", "A", "%", "2", "F", "%", "2",
    "F", "y", "o", "u", "t", "u", ".", "b", "e", "%", "2", "F", "d", "Q",
    "w", "4", "w", "9", "W", "g", "X", "c", "Q">>

\* ?https://youtu.be/short
QYoutubeShort ==
  <<"?", "h", "t", "t", "p", "s", ":", "/", "/", "y", "o", "u", "t", "u",
    ".", "b", "e", "/", "s", "h", "o", "r", "t">>

\* ?https://vimeo.com/x?u=youtu.be/dQw4w9WgXcQ
QVimeoWithYoutube ==
  <<"?", "h", "t", "t", "p", "s", ":", "/", "/", "v", "i", "m", "e", "o",
    ".", "c", "o", "m", "/", "x", "?", "u", "=", "y", "o", "u", "t", "u",
    ".", "b", "e", "/", "d", "Q", "w", "4", "w", "9", "W", "g", "X", "c",
    "Q">>

\* ?hello
QOther ==
  <<"?", "h", "e", "l", "l", "o">>

\* ?%
QLonePercent ==
  <<"?", "%">>

\* ?%E0%A4%A
QCutEscape ==
  <<"?", "%", "E", "0", "%", "A", "4", "%", "A">>

\* ?vimeo.com/%zz
QVimeoBadEscape ==
  <<"?", "v", "i", "m", "e", "o", ".", "c", "o", "m", "/", "%", "z", "z">>

\* ?12a
QDigitsLetter ==
  <<"?", "1", "2", "a">>

\* ?%20
QBlank ==
  <<"?", "%", "2", "0">>

OtherQueries ==
  { <<>>, <<"?">>,
    QDefaultId, QDigits, QEscapedDigits, QPaddedDigits,
    QVimeoShowcase, QVimeoBare, QVimeoEscaped, QYoutubeEscaped,
    QYoutubeShort, QVimeoWithYoutube, QOther, QLonePercent,
    QCutEscape, QVimeoBadEscape, QDigitsLetter, QBlank }

Searches == YtQueries \cup OtherQueries

(***************************************************************************)
(* JavaScript values of a JSON field: a number, a non-numeric non-empty    *)
(* string, or absent (undefined)                                           *)
(***************************************************************************)
Num(v) == [t |-> "number", v |-> v]
Str == [t |-> "string", v |-> 0]
Undefined == [t |-> "undefined", v |-> 0]

\* ToBoolean: 0 and undefined are falsy, a non-empty string is truthy.
Truthy(x) == (x.t = "number" /\ x.v # 0) \/ x.t = "string"

(***************************************************************************)
(* State                                                                   *)
(***************************************************************************)
VARIABLES
  search,         \* window.location.search
  appError,       \* an exception escaped App's render
  mounted,        \* App: useState(false)
  videoData,      \* App: the video reference, Null while pending
  oembed,         \* resolveVimeoUrl: [st, resp], the call and what it received
  oembedCount,    \* oEmbed resolution requests issued so far
  windowVimeo,    \* window.Vimeo is defined
  windowYT,       \* window.YT && window.YT.Player
  phase,          \* UniversalPlayer: "unmounted", "mounted" or "torndown"
  props,          \* UniversalPlayer: { videoId, provider } as [id, provider]
  ui,             \* UniversalPlayer: the useState values
  refs,           \* UniversalPlayer: playerRef, checkYTInterval, controlsTimeoutRef
  inits,          \* runs of the player initialization effect (their closures)
  players,        \* the provider players constructed so far
  syncIntervals,  \* runs whose 1-second syncInterval is set
  ytPolls,        \* runs whose 100 ms YouTube API poll is set
  hideTimer,      \* the 3-second controls timeouts pending (their handles)
  infoFetches,    \* metadata fetches (fetchInfo) in flight
  calls,          \* player promises and callbacks in flight
  viewport,       \* the wrapper's layout box (it fills the window)
  roPending,      \* the ResizeObserver has an observation to deliver
  calcIn,         \* arguments of a calculateDimensions call
  calcOut         \* its result

appVars == <<search, appError, mounted, videoData, oembed, oembedCount>>
envVars == <<windowVimeo, windowYT>>
playerVars ==
  <<phase, props, ui, refs, inits, players, syncIntervals, ytPolls,
    hideTimer, infoFetches, calls, viewport, roPending>>
calcVars == <<calcIn, calcOut>>
vars == <<appVars, envVars, playerVars, calcVars>>

(***************************************************************************)
(* App (src/App.tsx)                                                       *)
(***************************************************************************)

\* The useState initializer of videoData, lines 7-34: [threw, value].
\* decodeURIComponent is called outside any try block, so its URIError
\* leaves the initializer and App's render.
InitialVideoData(s) ==
  IF Len(s) > 1 THEN
    LET query == substring1(s)
        dec == decodeURIComponent(query)
        decoded == trim(dec.val)
    IN  IF ~dec.ok THEN [threw |-> TRUE, value |-> Null]
        ELSE IF IsDigitsOnly(decoded)
          THEN [threw |-> FALSE, value |-> [id |-> decoded, provider |-> "vimeo"]]
        ELSE IF ytMatch(decoded).matched
          THEN [threw |-> FALSE,
                value |-> [id |-> ytMatch(decoded).id, provider |-> "youtube"]]
        ELSE IF includes(decoded, VimeoCom)
          THEN [threw |-> FALSE, value |-> Null]
        ELSE [threw |-> FALSE, value |-> DefaultVideo]
  ELSE [threw |-> FALSE, value |-> DefaultVideo]

\* Mutation of the resolution effect: the test of line 39 removed.
AlwaysResolves(vd) == TRUE

\* The condition of the resolution effect, line 39: videoData === null.
NeedsResolution(vd) == vd = Null

\* What the oEmbed endpoint can answer: fetch rejects; a response that is
\* not ok; an ok response whose body is not JSON; one whose JSON is null;
\* one whose JSON is an object with video_id as given.
VideoIds == {Undefined, Num(0), Num(12345), Num(76979871)}
OembedResponses ==
  { [kind |-> k, video_id |-> Undefined] :
      k \in {"reject", "notok", "badjson", "jsonnull"} }
  \cup { [kind |-> "json", video_id |-> v] : v \in VideoIds }

NoResponse == [kind |-> "none", video_id |-> Undefined]

\* Mutation of resolveVimeoUrl: the test of data.video_id (line 50) removed.
ResolvedVideoUnchecked(r) ==
  IF r.kind = "json"
  THEN [id |-> NatToString(r.video_id.v), provider |-> "vimeo"]
  ELSE DefaultVideo

\* resolveVimeoUrl, lines 40-59: the reference it passes to setVideoData
\* when the request has received r. Every exception (the rejected fetch,
\* the JSON parse error, the property read of null) is caught at line 55.
ResolvedVideo(r) ==
  IF r.kind = "json" /\ Truthy(r.video_id)
  THEN [id |-> NatToString(r.video_id.v), provider |-> "vimeo"]
  ELSE DefaultVideo

(***************************************************************************)
(* Numbers: the aspect ratio is a reduced fraction n/d with d > 0, or NaN; *)
(* a pixel dimension is an integer or NaN                                  *)
(***************************************************************************)
NaN == [nan |-> TRUE, n |-> 0, d |-> 1]

Abs(x) == IF x < 0 THEN -x ELSE x

RECURSIVE GCD(_, _)
GCD(a, b) == IF b = 0 THEN a ELSE GCD(b, a % b)

\* The quotient w / h of two integers, h # 0.
Frac(w, h) ==
  LET g == GCD(Abs(w), Abs(h))
      sign == IF h < 0 THEN -1 ELSE 1
  IN  [nan |-> FALSE, n |-> sign * (w \div g), d |-> sign * (h \div g)]

\* data.width / data.height for two JSON values: a non-numeric operand
\* makes the quotient NaN.
Quotient(x, y) ==
  IF x.t = "number" /\ y.t = "number" /\ y.v # 0 THEN Frac(x.v, y.v) ELSE NaN

\* Mutation of the rounding: Math.floor in place of Math.ceil, b > 0.
FloorDiv(a, b) == a \div b

\* Math.ceil(a / b), b # 0.
CeilDiv(a, b) == IF b < 0 THEN -(a \div (-b)) ELSE -((-a) \div b)

Px(v) == [nan |-> FALSE, v |-> v]
PxNaN == [nan |-> TRUE, v |-> 0]

\* The overscan factor 1.02 of lines 387-388, as 102/100.
OverscanNum == 102
OverscanDen == 100

\* Mutation of calculateDimensions: the comparison of line 375 reversed,
\* which fits the video inside the container instead of covering it.
calculateDimensionsContain(containerWidth, containerHeight, aspect) ==
  IF aspect.nan THEN
    [width |-> PxNaN,
     height |-> Px(CeilDiv(containerHeight * OverscanNum, OverscanDen))]
  ELSE IF containerWidth * aspect.d < aspect.n * containerHeight THEN
    [width |-> Px(CeilDiv(containerWidth * OverscanNum, OverscanDen)),
     height |-> Px(CeilDiv(containerWidth * aspect.d * OverscanNum,
                           aspect.n * OverscanDen))]
  ELSE
    [width |-> Px(CeilDiv(containerHeight * aspect.n * OverscanNum,
                          aspect.d * OverscanDen)),
     height |-> Px(CeilDiv(containerHeight * OverscanNum, OverscanDen))]

\* calculateDimensions, lines 371-390. A comparison with NaN is false, so a
\* NaN aspect takes the else branch and makes the width NaN.
calculateDimensions(containerWidth, containerHeight, aspect) ==
  IF aspect.nan THEN
    [width |-> PxNaN,
     height |-> Px(CeilDiv(containerHeight * OverscanNum, OverscanDen))]
  ELSE IF containerWidth * aspect.d > aspect.n * containerHeight THEN
    \* width = containerWidth, height = containerWidth / aspect
    [width |-> Px(CeilDiv(containerWidth * OverscanNum, OverscanDen)),
     height |-> Px(CeilDiv(containerWidth * aspect.d * OverscanNum,
                           aspect.n * OverscanDen))]
  ELSE
    \* height = containerHeight, width = containerHeight * aspect
    [width |-> Px(CeilDiv(containerHeight * aspect.n * OverscanNum,
                          aspect.d * OverscanDen)),
     height |-> Px(CeilDiv(containerHeight * OverscanNum, OverscanDen))]

(***************************************************************************)
(* UniversalPlayer (src/unnamed/part_000, lines 340-776): the component's  *)
(* state as one record c = [ui, refs, inits, players, syncIntervals,       *)
(* ytPolls, infoFetches, calls, roPending], and its effects as functions   *)
(* of it                                                                   *)
(***************************************************************************)

\* The useState initial values, lines 352-368.
InitialUi(vp) ==
  [hasStarted |-> TRUE, isPlaying |-> FALSE, progress |-> 0, duration |-> 0,
   showControls |-> FALSE, videoTitle |-> "default", thumbnailUrl |-> "null",
   videoAspectRatio |-> Frac(16, 9),
   videoDimensions |-> [width |-> Px(vp.w), height |-> Px(vp.h)]]

\* The useRef initial values, lines 347-348 and 360; 0 is null.
InitialRefs == [playerRef |-> 0, checkYTInterval |-> 0, controlsTimeoutRef |-> 0]

\* A player as new window.Vimeo.Player / new window.YT.Player returns it:
\* paused is what a Vimeo player answers getPaused(), state what a YouTube
\* player answers getPlayerState() (-1 unstarted, 0 ended, 1 playing,
\* 2 paused, 3 buffering, 5 cued), time the playback position, plays the
\* number of play commands it has been sent. For a Vimeo player state only
\* tells whether it has reached the end: 0 when it has and 'ended' is yet to
\* be delivered, 2 once the 'ended' handler has paused it. told is the state
\* a YouTube player has last passed to onStateChange.
NewPlayer(kind, id) ==
  [kind |-> kind, videoId |-> id, released |-> FALSE, ready |-> FALSE,
   paused |-> TRUE, state |-> -1, told |-> -1, time |-> 0, plays |-> 0]

Component ==
  [ui |-> ui, refs |-> refs, inits |-> inits, players |-> players,
   syncIntervals |-> syncIntervals, ytPolls |-> ytPolls,
   infoFetches |-> infoFetches, calls |-> calls, roPending |-> roPending]

\* clearInterval(checkYTInterval.current) when the ref is set, lines 587,
\* 590 and 619; the ref keeps the cleared handle.
ClearYTPoll(c) == c.ytPolls \ {c.refs.checkYTInterval}

\* The ResizeObserver effect, lines 404-424: a new observer is created and
\* observes the wrapper, which schedules a first observation.
ResizeObserverEffect(c) == [c EXCEPT !.roPending = TRUE]

\* The fetchInfo effect, lines 427-464, up to its first await.
FetchInfoEffect(c, ref) ==
  [c EXCEPT !.ui.videoTitle = "empty",
            !.ui.thumbnailUrl = "null",
            !.infoFetches = @ \cup {ref}]

\* createPlayer, lines 561-581, in run g of the initialization effect.
createPlayer(c, g) ==
  LET p == Len(c.players) + 1
  IN  [c EXCEPT !.players = Append(@, NewPlayer("youtube", c.inits[g].videoId)),
                !.inits[g].ytPlayer = p,
                !.refs.playerRef = p,
                !.calls = @ \cup {[kind |-> "onReady", g |-> g, p |-> p]}]

\* Mutation of setupVimeo: without the SDK it sets the readiness poll, as
\* setupYouTube does, in place of the return of line 481.
setupVimeoPolls(c, g, sdk) ==
  IF ~sdk THEN [c EXCEPT !.ytPolls = ClearYTPoll(c) \cup {g},
                         !.refs.checkYTInterval = g]
  ELSE LET p == Len(c.players) + 1
       IN  [c EXCEPT !.players = Append(@, NewPlayer("vimeo", c.inits[g].videoId)),
                     !.inits[g].vimeoPlayer = p,
                     !.refs.playerRef = p,
                     !.calls = @ \cup {[kind |-> "ready", g |-> g, p |-> p]}]

\* setupVimeo, lines 480-531: nothing without the SDK; else the player is
\* constructed and its ready() promise awaited.
setupVimeo(c, g, sdk) ==
  IF ~sdk THEN c
  ELSE LET p == Len(c.players) + 1
       IN  [c EXCEPT !.players = Append(@, NewPlayer("vimeo", c.inits[g].videoId)),
                     !.inits[g].vimeoPlayer = p,
                     !.refs.playerRef = p,
                     !.calls = @ \cup {[kind |-> "ready", g |-> g, p |-> p]}]

\* setupYouTube, lines 533-595: the player is created at once when the API
\* is loaded; else the 100 ms poll for it is set.
setupYouTube(c, g, api) ==
  IF api THEN createPlayer(c, g)
  ELSE [c EXCEPT !.ytPolls = ClearYTPoll(c) \cup {g},
                 !.refs.checkYTInterval = g]

\* The player initialization effect, lines 468-615, for the reference ref.
InitEffect(c, ref, sdk, api) ==
  LET g == Len(c.inits) + 1
      c1 == [c EXCEPT !.ui.hasStarted = TRUE,
                      !.ui.isPlaying = FALSE,
                      !.ui.progress = 0,
                      !.inits = Append(@, [videoId |-> ref.id,
                                           provider |-> ref.provider,
                                           vimeoPlayer |-> 0, ytPlayer |-> 0,
                                           cleaned |-> FALSE])]
      c2 == IF ref.provider = "vimeo" THEN setupVimeo(c1, g, sdk)
            ELSE IF ref.provider = "youtube" THEN setupYouTube(c1, g, api)
            ELSE c1
  IN  [c2 EXCEPT !.syncIntervals = @ \cup {g}]

\* Mutation of the cleanup: clearInterval(syncInterval), line 618, removed.
CleanupKeepsSync(c, g) ==
  LET v == c.inits[g].vimeoPlayer
      y == c.inits[g].ytPlayer
      release(ps, p) == IF p = 0 THEN ps ELSE [ps EXCEPT ![p].released = TRUE]
  IN  [c EXCEPT !.ytPolls = ClearYTPoll(c),
                !.players = release(release(@, v), y),
                !.refs.playerRef = 0,
                !.inits[g].cleaned = TRUE]

\* Mutation of the cleanup: clearInterval(checkYTInterval.current), line
\* 619, removed.
CleanupKeepsYTPoll(c, g) ==
  LET v == c.inits[g].vimeoPlayer
      y == c.inits[g].ytPlayer
      release(ps, p) == IF p = 0 THEN ps ELSE [ps EXCEPT ![p].released = TRUE]
  IN  [c EXCEPT !.syncIntervals = @ \ {g},
                !.players = release(release(@, v), y),
                !.refs.playerRef = 0,
                !.inits[g].cleaned = TRUE]

\* Mutation of the cleanup: unload() and destroy(), lines 620-621, removed.
CleanupKeepsPlayer(c, g) ==
  [c EXCEPT !.syncIntervals = @ \ {g},
            !.ytPolls = ClearYTPoll(c),
            !.refs.playerRef = 0,
            !.inits[g].cleaned = TRUE]

\* The cleanup of run g, lines 617-623.
Cleanup(c, g) ==
  LET v == c.inits[g].vimeoPlayer
      y == c.inits[g].ytPlayer
      release(ps, p) == IF p = 0 THEN ps ELSE [ps EXCEPT ![p].released = TRUE]
  IN  [c EXCEPT !.syncIntervals = @ \ {g},
                !.ytPolls = ClearYTPoll(c),
                !.players = release(release(@, v), y),
                !.refs.playerRef = 0,
                !.inits[g].cleaned = TRUE]

\* The run of the initialization effect that has not been cleaned up.
CurrentInit == Len(inits)

\* React mounts the component with the reference ref: state and refs take
\* their initial values and the three effects run in source order.
MountComponent(c, ref, vp, sdk, api) ==
  LET c0 == [c EXCEPT !.ui = InitialUi(vp), !.refs = InitialRefs]
  IN  InitEffect(FetchInfoEffect(ResizeObserverEffect(c0), ref), ref, sdk, api)

\* The component's variables take the values of the record c.
Assign(c) ==
  /\ ui' = c.ui
  /\ refs' = c.refs
  /\ inits' = c.inits
  /\ players' = c.players
  /\ syncIntervals' = c.syncIntervals
  /\ ytPolls' = c.ytPolls
  /\ infoFetches' = c.infoFetches
  /\ calls' = c.calls
  /\ roPending' = c.roPending

(***************************************************************************)
(* Bounds of the model                                                     *)
(***************************************************************************)

\* Runs of the player initialization effect in one execution.
MaxInits == 2

\* The length of every video, in seconds of playback position.
MaxTime == 1

\* Play commands one player is sent in one execution.
MaxPlays == 2

(***************************************************************************)
(* React: render and commit                                                *)
(***************************************************************************)

\* The references a parent other than App may hand the component.
VideoRefs ==
  { DefaultVideo,
    [id |-> <<"d", "Q", "w", "4", "w", "9", "W", "g", "X", "c", "Q">>,
     provider |-> "youtube"] }

\* The component is mounted with the reference ref.
PlayerMount(ref) ==
  /\ phase' = "mounted"
  /\ props' = ref
  /\ Assign(MountComponent(Component, ref, viewport, windowVimeo, windowYT))
  /\ UNCHANGED <<hideTimer, viewport>>

\* The mounted component is rendered with another reference: the effects
\* that depend on [videoId, provider] are cleaned up, then run again.
PlayerChangeProps(ref) ==
  /\ props' = ref
  /\ Assign(InitEffect(FetchInfoEffect(Cleanup(Component, CurrentInit), ref),
                       ref, windowVimeo, windowYT))
  /\ UNCHANGED <<phase, hideTimer, viewport>>

\* The component is unmounted: the ResizeObserver effect and the
\* initialization effect are cleaned up (lines 419-423 and 617-623).
PlayerUnmount ==
  /\ phase' = "torndown"
  /\ Assign([Cleanup(Component, CurrentInit) EXCEPT !.roPending = FALSE])
  /\ UNCHANGED <<props, hideTimer, viewport>>

\* Mutation of App's render: the player is rendered whatever videoData is.
RenderAppUnguarded(vd) ==
  IF phase = "unmounted" THEN PlayerMount(vd) ELSE UNCHANGED playerVars

\* App's render, lines 65-74, committed with mounted true and videoData vd:
\* the player is rendered only for a reference that is not null.
RenderApp(vd) ==
  IF vd = Null THEN
    IF phase = "mounted" THEN PlayerUnmount ELSE UNCHANGED playerVars
  ELSE IF phase = "unmounted" THEN PlayerMount(vd)
  ELSE IF phase = "mounted" /\ vd # props /\ Len(inits) < MaxInits
    THEN PlayerChangeProps(vd)
  ELSE UNCHANGED playerVars

\* The body of App's effect, lines 36-63, run with videoData vd; cur is the
\* state of the resolution call when the effect runs.
RunAppEffect(vd, cur) ==
  IF NeedsResolution(vd)
  THEN /\ oembed' = [st |-> "fetching", resp |-> NoResponse]
       /\ oembedCount' = oembedCount + 1
  ELSE /\ oembed' = cur
       /\ UNCHANGED oembedCount

(***************************************************************************)
(* App: actions                                                            *)
(***************************************************************************)

\* The effect after App's first render: setMounted(true), the resolution
\* request when videoData is null; then the render with mounted true.
AppMountEffect ==
  /\ ~appError
  /\ ~mounted
  /\ mounted' = TRUE
  /\ RunAppEffect(videoData, oembed)
  /\ RenderApp(videoData)
  /\ UNCHANGED <<search, appError, videoData, envVars, calcVars>>

\* setVideoData(v), then the render and the effect that depends on
\* videoData; cur is the state of the resolution call that made it.
SetVideoData(v, cur) ==
  /\ videoData' = v
  /\ IF v # videoData THEN RunAppEffect(v, cur)
     ELSE oembed' = cur /\ UNCHANGED oembedCount
  /\ RenderApp(v)

\* The fetch of line 46 settles with r. A rejection or a response that is
\* not ok ends resolveVimeoUrl at line 58; an ok response is parsed next.
OEmbedFetchSettle(r) ==
  /\ oembed.st = "fetching"
  /\ IF r.kind \in {"reject", "notok"}
     THEN SetVideoData(ResolvedVideo(r), [st |-> "done", resp |-> r])
     ELSE /\ oembed' = [st |-> "parsing", resp |-> r]
          /\ UNCHANGED <<videoData, oembedCount, playerVars>>
  /\ UNCHANGED <<search, appError, mounted, envVars, calcVars>>

\* response.json() of line 49 settles: lines 50-58.
OEmbedJsonSettle ==
  /\ oembed.st = "parsing"
  /\ SetVideoData(ResolvedVideo(oembed.resp), [oembed EXCEPT !.st = "done"])
  /\ UNCHANGED <<search, appError, mounted, envVars, calcVars>>

(***************************************************************************)
(* UniversalPlayer: actions                                                *)
(***************************************************************************)

\* React drops the setState calls of a component that is unmounted.
Live == phase = "mounted"

\* The values a width or height may arrive as.
DimVals == {Undefined, Num(0), Num(-3), Num(4), Str}

\* What the metadata endpoint can answer: ok is false for a rejected fetch,
\* a response that is not ok and a body that is not JSON alike; an ok
\* answer carries a title and a thumbnail, or neither, and any dimensions.
InfoResponses ==
  { [ok |-> FALSE, title |-> FALSE, width |-> Undefined, height |-> Undefined,
     thumb |-> FALSE] }
  \cup { [ok |-> TRUE, title |-> b, width |-> w, height |-> h, thumb |-> b] :
           b \in BOOLEAN, w \in DimVals, h \in DimVals }

\* setVideoAspectRatio(a): a changed value re-runs the ResizeObserver effect
\* (its dependency, line 424), whose new observer schedules an observation.
SetAspect(u, a) == [u EXCEPT !.videoAspectRatio = a]

\* if (w && h) setVideoAspectRatio(w / h), lines 440-442, 454-456, 509.
AspectAfter(u, w, h) ==
  IF Truthy(w) /\ Truthy(h) THEN SetAspect(u, Quotient(w, h)) ELSE u

\* Mutation of the commit: the ResizeObserver effect does not depend on
\* videoAspectRatio, so a changed ratio creates no new observer.
CommitUiNoObserve(v) ==
  /\ ui' = IF Live THEN v ELSE ui
  /\ roPending' = roPending

\* The ui and the ResizeObserver after the state update u -> v.
CommitUi(v) ==
  /\ ui' = IF Live THEN v ELSE ui
  /\ roPending' = IF Live /\ v.videoAspectRatio # ui.videoAspectRatio
                  THEN TRUE ELSE roPending

\* fetchInfo after its awaits, lines 435-446 and 451-459, for the fetch of
\* the reference ref settling with r.
InfoFetchSettle(ref, r) ==
  /\ ref \in infoFetches
  /\ infoFetches' = infoFetches \ {ref}
  /\ LET u1 == IF r.title THEN [ui EXCEPT !.videoTitle = "fetched"] ELSE ui
         u2 == AspectAfter(u1, r.width, r.height)
         u3 == [u2 EXCEPT !.thumbnailUrl =
                  IF ref.provider = "youtube" \/ r.thumb THEN "thumb" ELSE "null"]
     IN  CommitUi(IF r.ok THEN u3 ELSE ui)
  /\ UNCHANGED <<appVars, envVars, calcVars, phase, props, refs, inits,
                 players, syncIntervals, ytPolls, hideTimer, calls, viewport>>

\* vimeoPlayer.ready() resolves, lines 506-520: the dimension and duration
\* queries are sent and playback is attempted; the browser allows it or not.
VimeoReady(call, allowed) ==
  /\ call \in calls
  /\ call.kind = "ready"
  /\ calls' = (calls \ {call})
                \cup {[call EXCEPT !.kind = "dims"], [call EXCEPT !.kind = "duration"]}
  /\ players' = [players EXCEPT ![call.p].ready = TRUE,
                                ![call.p].paused = ~allowed,
                                ![call.p].plays = @ + 1]
  /\ UNCHANGED <<appVars, envVars, calcVars, phase, props, ui, refs, inits,
                 syncIntervals, ytPolls, hideTimer, infoFetches, viewport,
                 roPending>>

\* Promise.all([getVideoWidth(), getVideoHeight()]) settles, lines 507-510.
DimsSettle(call, w, h) ==
  /\ call \in calls
  /\ call.kind = "dims"
  /\ calls' = calls \ {call}
  /\ CommitUi(AspectAfter(ui, w, h))
  /\ UNCHANGED <<appVars, envVars, calcVars, phase, props, refs, inits,
                 players, syncIntervals, ytPolls, hideTimer, infoFetches,
                 viewport>>

\* getDuration() resolves, line 511.
DurationSettle(call) ==
  /\ call \in calls
  /\ call.kind = "duration"
  /\ calls' = calls \ {call}
  /\ CommitUi([ui EXCEPT !.duration = MaxTime])
  /\ UNCHANGED <<appVars, envVars, calcVars, phase, props, refs, inits,
                 players, syncIntervals, ytPolls, hideTimer, infoFetches,
                 viewport>>

\* onPlayerReady, lines 541-547, called by a player that is not destroyed.
YTReady(call, allowed) ==
  /\ call \in calls
  /\ call.kind = "onReady"
  /\ ~players[call.p].released
  /\ calls' = calls \ {call}
  /\ players' = [players EXCEPT ![call.p].ready = TRUE,
                                ![call.p].state = IF allowed THEN 1 ELSE -1,
                                ![call.p].plays = @ + 1]
  /\ CommitUi([ui EXCEPT !.duration = MaxTime])
  /\ UNCHANGED <<appVars, envVars, calcVars, phase, props, refs, inits,
                 syncIntervals, ytPolls, hideTimer, infoFetches, viewport>>

\* The syncInterval callback of run g, lines 601-615.
SyncTick(g) ==
  /\ g \in syncIntervals
  /\ LET i == inits[g]
         p == refs.playerRef
     IN  IF i.provider = "vimeo" /\ i.vimeoPlayer # 0 THEN
           /\ calls' = calls \cup
                {[kind |-> "getPaused", g |-> g, p |-> i.vimeoPlayer],
                 [kind |-> "getCurrentTime", g |-> g, p |-> i.vimeoPlayer]}
           /\ UNCHANGED <<ui, roPending>>
         ELSE IF i.provider = "youtube" /\ p # 0 /\ players[p].ready THEN
           /\ CommitUi([ui EXCEPT !.progress = players[p].time,
                                  !.isPlaying = players[p].state \in {1, 3}])
           /\ UNCHANGED calls
         ELSE UNCHANGED <<ui, roPending, calls>>
  /\ UNCHANGED <<appVars, envVars, calcVars, phase, props, refs, inits,
                 players, syncIntervals, ytPolls, hideTimer, infoFetches,
                 viewport>>

\* Mutation of the poll: the answer of getPaused() is dropped, line 603
\* without its setIsPlaying.
PausedSettleDropped(call) ==
  /\ call \in calls
  /\ call.kind = "getPaused"
  /\ calls' = calls \ {call}
  /\ UNCHANGED <<appVars, envVars, calcVars, phase, props, ui, refs, inits,
                 players, syncIntervals, ytPolls, hideTimer, infoFetches,
                 viewport, roPending>>

\* getPaused() resolves, line 603.
PausedSettle(call) ==
  /\ call \in calls
  /\ call.kind = "getPaused"
  /\ calls' = calls \ {call}
  /\ CommitUi([ui EXCEPT !.isPlaying = ~players[call.p].paused])
  /\ UNCHANGED <<appVars, envVars, calcVars, phase, props, refs, inits,
                 players, syncIntervals, ytPolls, hideTimer, infoFetches,
                 viewport>>

\* getCurrentTime() resolves, line 604.
TimeSettle(call) ==
  /\ call \in calls
  /\ call.kind = "getCurrentTime"
  /\ calls' = calls \ {call}
  /\ CommitUi([ui EXCEPT !.progress = players[call.p].time])
  /\ UNCHANGED <<appVars, envVars, calcVars, phase, props, refs, inits,
                 players, syncIntervals, ytPolls, hideTimer, infoFetches,
                 viewport>>

\* Mutation of the checkYTInterval callback: the clearInterval of line 590
\* removed, so the poll goes on after it has created the player.
YTPollTickKeepsPolling(g) ==
  /\ g \in ytPolls
  /\ Len(players) < MaxInits + 1
  /\ IF windowYT
     THEN Assign(createPlayer(Component, g))
     ELSE Assign(Component)
  /\ UNCHANGED <<appVars, envVars, calcVars, phase, props, hideTimer, viewport>>

\* The checkYTInterval callback of run g, lines 588-593.
YTPollTick(g) ==
  /\ g \in ytPolls
  /\ IF windowYT
     THEN Assign(createPlayer([Component EXCEPT !.ytPolls = ClearYTPoll(Component)], g))
     ELSE Assign(Component)
  /\ UNCHANGED <<appVars, envVars, calcVars, phase, props, hideTimer, viewport>>

\* The provider scripts finish loading.
YTApiLoads ==
  /\ ~windowYT
  /\ windowYT' = TRUE
  /\ UNCHANGED <<appVars, windowVimeo, playerVars, calcVars>>

VimeoSdkLoads ==
  /\ ~windowVimeo
  /\ windowVimeo' = TRUE
  /\ UNCHANGED <<appVars, windowYT, playerVars, calcVars>>

\* A playing player moves its position on by a second.
PlaybackAdvance(p) ==
  /\ p \in DOMAIN players
  /\ ~players[p].released
  /\ players[p].ready
  /\ IF players[p].kind = "vimeo" THEN ~players[p].paused
     ELSE players[p].state = 1
  /\ players[p].time < MaxTime
  /\ players' = [players EXCEPT ![p].time = @ + 1]
  /\ UNCHANGED <<appVars, envVars, calcVars, phase, props, ui, refs, inits,
                 syncIntervals, ytPolls, hideTimer, infoFetches, calls,
                 viewport, roPending>>

\* clearTimeout(h) on the pending timeouts T: a handle that is not pending
\* (null, fired or cleared before) clears nothing.
clearTimeout(T, h) == T \ {h}

\* The handle setTimeout returns with the timeouts T pending: one that no
\* pending timeout has.
setTimeout(T) == Min((1..(Cardinality(T) + 1)) \ T)

\* Mutation of showControlsTemporarily: the clearTimeout of line 631
\* removed, so an earlier timeout stays pending beside the new one.
showControlsNoClear ==
  /\ Cardinality(hideTimer) < 2
  /\ ui' = [ui EXCEPT !.showControls = TRUE]
  /\ refs' = [refs EXCEPT !.controlsTimeoutRef = setTimeout(hideTimer)]
  /\ hideTimer' = hideTimer \cup {setTimeout(hideTimer)}

\* showControlsTemporarily, lines 628-635, as onMouseMove and onTouchStart
\* of the wrapper call it (lines 704-705): the timeout the ref holds is
\* cleared and a new one is set and kept in the ref.
showControlsTemporarily ==
  /\ ui' = [ui EXCEPT !.showControls = TRUE]
  /\ LET T == clearTimeout(hideTimer, refs.controlsTimeoutRef)
     IN  /\ refs' = [refs EXCEPT !.controlsTimeoutRef = setTimeout(T)]
         /\ hideTimer' = T \cup {setTimeout(T)}

\* The same call at the end of a handler that has updated the state to u.
ShowControlsAfter(u) ==
  /\ ui' = [u EXCEPT !.showControls = TRUE]
  /\ LET T == clearTimeout(hideTimer, refs.controlsTimeoutRef)
     IN  /\ refs' = [refs EXCEPT !.controlsTimeoutRef = setTimeout(T)]
         /\ hideTimer' = T \cup {setTimeout(T)}

Interaction ==
  /\ Live
  /\ showControlsTemporarily
  /\ UNCHANGED <<appVars, envVars, calcVars, phase, props, inits, players,
                 syncIntervals, ytPolls, infoFetches, calls, viewport,
                 roPending>>

\* Mutation of the timeout callback: it recomputes the embed geometry too.
HideTimerFireRelayout ==
  /\ \E t \in hideTimer : hideTimer' = hideTimer \ {t}
  /\ ui' = IF Live
           THEN [ui EXCEPT !.showControls = FALSE,
                           !.videoDimensions =
                             calculateDimensions(viewport.w, viewport.h,
                                                 ui.videoAspectRatio)]
           ELSE ui
  /\ UNCHANGED <<appVars, envVars, calcVars, phase, props, refs, inits,
                 players, syncIntervals, ytPolls, infoFetches, calls,
                 viewport, roPending>>

\* Mutation of the timeout callback: setShowControls(false), line 633,
\* removed.
HideTimerFireKeepsShown ==
  /\ \E t \in hideTimer : hideTimer' = hideTimer \ {t}
  /\ UNCHANGED <<appVars, envVars, calcVars, phase, props, ui, refs, inits,
                 players, syncIntervals, ytPolls, infoFetches, calls,
                 viewport, roPending>>

\* The timeout callback of lines 632-634.
HideTimerFire ==
  /\ \E t \in hideTimer : hideTimer' = hideTimer \ {t}
  /\ CommitUi([ui EXCEPT !.showControls = FALSE])
  /\ UNCHANGED <<appVars, envVars, calcVars, phase, props, refs, inits,
                 players, syncIntervals, ytPolls, infoFetches, calls,
                 viewport>>

(***************************************************************************)
(* Player events                                                           *)
(***************************************************************************)

\* Mutation of isControlsVisible: the term !isPlaying removed.
VisibleOnlyWhenShown(u) == u.showControls

\* isControlsVisible, lines 691-692, for the state u.
isControlsVisible(u) == u.showControls \/ ~u.isPlaying

\* The player p is playing.
Playing(p) ==
  IF players[p].kind = "vimeo" THEN ~players[p].paused
  ELSE players[p].state \in {1, 3}

\* A player that has been made ready and not released emits events.
Emits(p, kind) ==
  /\ players[p].kind = kind
  /\ players[p].ready
  /\ ~players[p].released

\* A playing player reaches the end of the video and stops there; its
\* 'ended' event (Vimeo) or state 0 (YouTube) is still to be delivered.
PlaybackEnds(p) ==
  /\ ~players[p].released
  /\ players[p].ready
  /\ IF players[p].kind = "vimeo" THEN ~players[p].paused
     ELSE players[p].state = 1
  /\ players[p].time = MaxTime
  /\ players' = [players EXCEPT ![p].paused = TRUE, ![p].state = 0]
  /\ UNCHANGED <<appVars, envVars, calcVars, phase, props, ui, refs, inits,
                 syncIntervals, ytPolls, hideTimer, infoFetches, calls,
                 viewport, roPending>>

\* The handlers of lines 522-524: 'play', 'pause' and 'timeupdate' of a
\* Vimeo player.
VimeoPlayEvent(p) ==
  /\ Emits(p, "vimeo")
  /\ ~players[p].paused
  /\ CommitUi([ui EXCEPT !.isPlaying = TRUE])
  /\ UNCHANGED <<appVars, envVars, calcVars, phase, props, refs, inits,
                 players, syncIntervals, ytPolls, hideTimer, infoFetches,
                 calls, viewport>>

\* Mutation of the 'pause' handler: it sends play() again.
VimeoPauseEventRetries(p) ==
  /\ Emits(p, "vimeo")
  /\ players[p].paused
  /\ players[p].plays < MaxPlays
  /\ players' = [players EXCEPT ![p].plays = @ + 1]
  /\ CommitUi([ui EXCEPT !.isPlaying = FALSE])
  /\ UNCHANGED <<appVars, envVars, calcVars, phase, props, refs, inits,
                 syncIntervals, ytPolls, hideTimer, infoFetches, calls,
                 viewport>>

VimeoPauseEvent(p) ==
  /\ Emits(p, "vimeo")
  /\ players[p].paused
  /\ CommitUi([ui EXCEPT !.isPlaying = FALSE])
  /\ UNCHANGED <<appVars, envVars, calcVars, phase, props, refs, inits,
                 players, syncIntervals, ytPolls, hideTimer, infoFetches,
                 calls, viewport>>

VimeoTimeupdate(p) ==
  /\ Emits(p, "vimeo")
  /\ ~players[p].paused
  /\ CommitUi([ui EXCEPT !.progress = players[p].time])
  /\ UNCHANGED <<appVars, envVars, calcVars, phase, props, refs, inits,
                 players, syncIntervals, ytPolls, hideTimer, infoFetches,
                 calls, viewport>>

\* Mutation of the 'ended' handler: setCurrentTime(0) and pause(), lines
\* 528-529, removed.
VimeoEndedNoCommands(p) ==
  /\ Emits(p, "vimeo")
  /\ players[p].state = 0
  /\ CommitUi([ui EXCEPT !.isPlaying = FALSE, !.progress = 0])
  /\ players' = [players EXCEPT ![p].state = 2]
  /\ UNCHANGED <<appVars, envVars, calcVars, phase, props, refs, inits,
                 syncIntervals, ytPolls, hideTimer, infoFetches, calls,
                 viewport>>

\* The 'ended' handler of lines 525-530: the state is reset and the player
\* is sent setCurrentTime(0) and pause().
VimeoEnded(p) ==
  /\ Emits(p, "vimeo")
  /\ players[p].state = 0
  /\ CommitUi([ui EXCEPT !.isPlaying = FALSE, !.progress = 0])
  /\ players' = [players EXCEPT ![p].time = 0, ![p].paused = TRUE,
                                ![p].state = 2]
  /\ UNCHANGED <<appVars, envVars, calcVars, phase, props, refs, inits,
                 syncIntervals, ytPolls, hideTimer, infoFetches, calls,
                 viewport>>

\* onStateChange, lines 549-559, called with the state the player is in:
\* 1 and 2 set isPlaying; 0 resets the state and sends seekTo(0) and
\* pauseVideo(); -1, 3 and 5 change nothing.
YTStateChange(p) ==
  /\ Emits(p, "youtube")
  /\ LET data == players[p].state
     IN  IF data = 1 THEN
           /\ CommitUi([ui EXCEPT !.isPlaying = TRUE])
           /\ players' = [players EXCEPT ![p].told = data]
         ELSE IF data = 2 THEN
           /\ CommitUi([ui EXCEPT !.isPlaying = FALSE])
           /\ players' = [players EXCEPT ![p].told = data]
         ELSE IF data = 0 THEN
           /\ CommitUi([ui EXCEPT !.isPlaying = FALSE, !.progress = 0])
           /\ players' = [players EXCEPT ![p].time = 0, ![p].state = 2,
                                         ![p].told = data]
         ELSE
           /\ UNCHANGED <<ui, roPending>>
           /\ players' = [players EXCEPT ![p].told = data]
  /\ UNCHANGED <<appVars, envVars, calcVars, phase, props, refs, inits,
                 syncIntervals, ytPolls, hideTimer, infoFetches, calls,
                 viewport>>

\* A playing YouTube player starts or stops buffering.
YTBuffers(p) ==
  /\ Emits(p, "youtube")
  /\ players[p].state \in {1, 3}
  /\ players' = [players EXCEPT ![p].state = IF @ = 1 THEN 3 ELSE 1]
  /\ UNCHANGED <<appVars, envVars, calcVars, phase, props, ui, refs, inits,
                 syncIntervals, ytPolls, hideTimer, infoFetches, calls,
                 viewport, roPending>>

(***************************************************************************)
(* User gestures: togglePlay and handleSeek                                *)
(***************************************************************************)

\* play() or playVideo() sent to the player p: it starts playing when the
\* command takes effect (ok) and stays as it is when the command fails.
PlayCommand(ps, p, ok) ==
  [ps EXCEPT ![p].plays = @ + 1,
             ![p].paused = IF ok THEN FALSE ELSE @,
             ![p].state = IF ok /\ ps[p].kind = "youtube" THEN 1 ELSE @]

\* pause() or pauseVideo() sent to the player p.
PauseCommand(ps, p, ok) ==
  [ps EXCEPT ![p].paused = IF ok THEN TRUE ELSE @,
             ![p].state = IF ok /\ ps[p].kind = "youtube" THEN 2 ELSE @]

\* setCurrentTime(t) or seekTo(t, true) sent to the player p: the position
\* is t, at most the length of the video, when the command takes effect.
SeekCommand(ps, p, t, ok) ==
  [ps EXCEPT ![p].time = IF ok THEN Min({t, MaxTime}) ELSE @]

\* togglePlay, lines 637-668, as the click layer's onClick calls it. For
\* Vimeo the command follows when getPaused() resolves; for YouTube it is
\* sent at once, ok telling whether it takes effect. Without a player, or
\* with a YouTube player whose methods are not there yet, the handler
\* returns before showControlsTemporarily.
togglePlay(ok) ==
  /\ Live
  /\ LET p == refs.playerRef
     IN  IF p = 0 THEN UNCHANGED <<ui, refs, hideTimer, players, calls>>
         ELSE IF props.provider = "vimeo" THEN
           /\ calls' = calls \cup {[kind |-> "toggle", g |-> CurrentInit, p |-> p]}
           /\ showControlsTemporarily
           /\ UNCHANGED players
         ELSE IF ~players[p].ready THEN
           UNCHANGED <<ui, refs, hideTimer, players, calls>>
         ELSE IF players[p].state \in {1, 3} THEN
           /\ players' = PauseCommand(players, p, ok)
           /\ ShowControlsAfter([ui EXCEPT !.isPlaying = FALSE])
           /\ UNCHANGED calls
         ELSE
           /\ players[p].plays < MaxPlays
           /\ players' = PlayCommand(players, p, ok)
           /\ ShowControlsAfter([ui EXCEPT !.isPlaying = TRUE])
           /\ UNCHANGED calls
  /\ UNCHANGED <<appVars, envVars, calcVars, phase, props, inits,
                 syncIntervals, ytPolls, infoFetches, viewport, roPending>>

\* getPaused() of togglePlay resolves, lines 642-652: play() or pause() is
\* sent, its rejection is logged, and isPlaying is set to what was asked.
ToggleSettle(call, ok) ==
  /\ call \in calls
  /\ call.kind = "toggle"
  /\ players[call.p].ready
  /\ calls' = calls \ {call}
  /\ IF players[call.p].paused THEN
       /\ players[call.p].plays < MaxPlays
       /\ players' = PlayCommand(players, call.p, ok)
       /\ CommitUi([ui EXCEPT !.isPlaying = TRUE])
     ELSE
       /\ players' = PauseCommand(players, call.p, ok)
       /\ CommitUi([ui EXCEPT !.isPlaying = FALSE])
  /\ UNCHANGED <<appVars, envVars, calcVars, phase, props, refs, inits,
                 syncIntervals, ytPolls, hideTimer, infoFetches, viewport>>

\* The largest value of the seek input, line 764: duration || 100.
SeekFallbackMax == 100
SeekMax(u) == IF u.duration # 0 THEN u.duration ELSE SeekFallbackMax

\* The values the user can drag the seek input to: each second of a known
\* duration, or the ends of the range.
SeekValues(u) == {0, SeekMax(u)} \cup (0..u.duration)

\* handleSeek, lines 670-683, for the input value time; ok tells whether
\* the player applies the seek.
handleSeek(time, ok) ==
  /\ Live
  /\ time \in SeekValues(ui)
  /\ LET p == refs.playerRef
     IN  IF p = 0 THEN UNCHANGED players
         ELSE IF props.provider = "vimeo"
           THEN players' = SeekCommand(players, p, time, ok)
         ELSE IF props.provider = "youtube" /\ players[p].ready
           THEN players' = SeekCommand(players, p, time, TRUE)
         ELSE UNCHANGED players
  /\ ShowControlsAfter([ui EXCEPT !.progress = time])
  /\ UNCHANGED <<appVars, envVars, calcVars, phase, props, inits,
                 syncIntervals, ytPolls, infoFetches, calls, viewport,
                 roPending>>

\* The window sizes of the model.
Sizes == {[w |-> 1920, h |-> 1080], [w |-> 375, h |-> 812]}

\* The window is resized: handleResize (lines 392-401) runs as the resize
\* listener and the ResizeObserver has a new observation.
EnvResize(sz) ==
  /\ sz # viewport
  /\ viewport' = sz
  /\ IF Live
     THEN /\ ui' = [ui EXCEPT !.videoDimensions =
                      calculateDimensions(sz.w, sz.h, ui.videoAspectRatio)]
          /\ roPending' = TRUE
     ELSE UNCHANGED <<ui, roPending>>
  /\ UNCHANGED <<appVars, envVars, calcVars, phase, props, refs, inits,
                 players, syncIntervals, ytPolls, hideTimer, infoFetches,
                 calls>>

\* The ResizeObserver callback, lines 407-412.
ResizeObserverDeliver ==
  /\ roPending
  /\ roPending' = FALSE
  /\ ui' = [ui EXCEPT !.videoDimensions =
              calculateDimensions(viewport.w, viewport.h, ui.videoAspectRatio)]
  /\ UNCHANGED <<appVars, envVars, calcVars, phase, props, refs, inits,
                 players, syncIntervals, ytPolls, hideTimer, infoFetches,
                 calls, viewport>>

(***************************************************************************)
(* A parent other than App: it mounts the component, hands it another      *)
(* reference, unmounts it                                                  *)
(***************************************************************************)
ParentMount(ref) ==
  /\ phase = "unmounted"
  /\ PlayerMount(ref)
  /\ UNCHANGED <<appVars, envVars, calcVars>>

ParentChangeProps(ref) ==
  /\ phase = "mounted"
  /\ ref # props
  /\ Len(inits) < MaxInits
  /\ PlayerChangeProps(ref)
  /\ UNCHANGED <<appVars, envVars, calcVars>>

ParentUnmount ==
  /\ phase = "mounted"
  /\ PlayerUnmount
  /\ UNCHANGED <<appVars, envVars, calcVars>>

(***************************************************************************)
(* The cover computation on its own                                        *)
(***************************************************************************)

\* Container sides run over 1..MaxSide, the terms of the aspect ratio over
\* 1..MaxRatio.
MaxSide == 12
MaxRatio == 4

CalcInputs ==
  [w : 1..MaxSide, h : 1..MaxSide, n : 1..MaxRatio, d : 1..MaxRatio]
  \cup [w : {375, 1920}, h : {812, 1080}, n : {16}, d : {9}]

NotCalculated == [done |-> FALSE, width |-> Px(0), height |-> Px(0)]

\* calculateDimensions is called with the arguments calcIn.
Calculate ==
  /\ ~calcOut.done
  /\ LET r == calculateDimensions(calcIn.w, calcIn.h, Frac(calcIn.n, calcIn.d))
     IN  calcOut' = [done |-> TRUE, width |-> r.width, height |-> r.height]
  /\ UNCHANGED <<appVars, envVars, playerVars, calcIn>>

(***************************************************************************)
(* Specifications                                                          *)
(***************************************************************************)

\* The state after App's first render for the query s.
AppInit(s) ==
  /\ search = s
  /\ appError = InitialVideoData(s).threw
  /\ mounted = FALSE
  /\ videoData = InitialVideoData(s).value
  /\ oembed = [st |-> "idle", resp |-> NoResponse]
  /\ oembedCount = 0

\* No component is mounted yet.
PlayerInit ==
  /\ phase = "unmounted"
  /\ props = Null
  /\ viewport = [w |-> 1920, h |-> 1080]
  /\ ui = InitialUi(viewport)
  /\ refs = InitialRefs
  /\ inits = <<>>
  /\ players = <<>>
  /\ syncIntervals = {}
  /\ ytPolls = {}
  /\ hideTimer = {}
  /\ infoFetches = {}
  /\ calls = {}
  /\ roPending = FALSE

CalcIdle ==
  /\ calcIn = [w |-> 1920, h |-> 1080, n |-> 16, d |-> 9]
  /\ calcOut = NotCalculated

\* The component's actions by concern. Each specification below takes the
\* actions of the concerns it is about, together with the actions that
\* mount, re-render and unmount the component. The groups write disjoint
\* parts of the state: the adapters write players and the pending calls, the
\* synchronizer isPlaying and progress, the overlay showControls and the hide
\* timer, the aspect tracker videoAspectRatio, the layout videoDimensions;
\* the synchronizer reads the players and the layout reads the aspect ratio,
\* so a specification about the one includes the actions of the other.

\* The provider adapters: the scripts load, the players are constructed
\* and become ready.
AdapterNext ==
  \/ YTApiLoads
  \/ VimeoSdkLoads
  \/ \E g \in ytPolls : YTPollTick(g)
  \/ \E call \in calls, allowed \in BOOLEAN : VimeoReady(call, allowed)
  \/ \E call \in calls, allowed \in BOOLEAN : YTReady(call, allowed)
  \/ \E call \in calls : DurationSettle(call)

\* The playback state synchronizer.
SyncNext ==
  \/ \E g \in syncIntervals : SyncTick(g)
  \/ \E call \in calls : PausedSettle(call)
  \/ \E call \in calls : TimeSettle(call)
  \/ \E p \in DOMAIN players : PlaybackAdvance(p)

\* The overlay controller.
OverlayNext ==
  \/ Interaction
  \/ HideTimerFire

\* The events the players emit.
EventNext ==
  \/ \E p \in DOMAIN players : PlaybackEnds(p)
  \/ \E p \in DOMAIN players : VimeoPlayEvent(p)
  \/ \E p \in DOMAIN players : VimeoPauseEvent(p)
  \/ \E p \in DOMAIN players : VimeoTimeupdate(p)
  \/ \E p \in DOMAIN players : VimeoEnded(p)
  \/ \E p \in DOMAIN players : YTStateChange(p)
  \/ \E p \in DOMAIN players : YTBuffers(p)

\* The user's clicks and drags.
GestureNext ==
  \/ \E ok \in BOOLEAN : togglePlay(ok)
  \/ \E call \in calls, ok \in BOOLEAN : ToggleSettle(call, ok)
  \/ \E time \in SeekValues(ui), ok \in BOOLEAN : handleSeek(time, ok)

\* The aspect-ratio tracker: the metadata fetch and the player's dimensions.
MetaNext ==
  \E ref \in VideoRefs, r \in InfoResponses : InfoFetchSettle(ref, r)

AspectNext ==
  \/ MetaNext
  \/ \E call \in calls, w \in DimVals, h \in DimVals : DimsSettle(call, w, h)

\* The cover layout.
LayoutNext ==
  \/ \E sz \in Sizes : EnvResize(sz)
  \/ ResizeObserverDeliver

\* The queries of the whole-program specification: one per resolution path.
LiveSearches ==
  { <<>>, QDigits, QVimeoShowcase, QYoutubeEscaped, QLonePercent }

\* The program: App and the player it mounts.
Init ==
  /\ \E s \in LiveSearches : AppInit(s)
  /\ windowVimeo \in BOOLEAN
  /\ windowYT \in BOOLEAN
  /\ PlayerInit
  /\ CalcIdle

AppNext ==
  \/ AppMountEffect
  \/ \E r \in OembedResponses : OEmbedFetchSettle(r)
  \/ OEmbedJsonSettle

Next == AppNext \/ AdapterNext \/ SyncNext

Spec == Init /\ [][Next]_vars

\* Resolution alone, over every query of the model.
InitResolve ==
  /\ \E s \in Searches : AppInit(s)
  /\ windowVimeo = TRUE
  /\ windowYT = TRUE
  /\ PlayerInit
  /\ CalcIdle

SpecResolve == InitResolve /\ [][AppNext]_vars

\* The component under a parent that may change the reference and unmount.
InitPlayer ==
  /\ AppInit(<<>>)
  /\ windowVimeo \in BOOLEAN
  /\ windowYT \in BOOLEAN
  /\ PlayerInit
  /\ CalcIdle

ParentNext ==
  \/ \E ref \in VideoRefs : ParentMount(ref)
  \/ \E ref \in VideoRefs : ParentChangeProps(ref)
  \/ ParentUnmount

NextPlayer == ParentNext \/ AdapterNext \/ SyncNext \/ OverlayNext

SpecPlayer == InitPlayer /\ [][NextPlayer]_vars

\* Playback: the component mounted once, its players' events and the
\* user's gestures.
MountNext ==
  \/ \E ref \in VideoRefs : ParentMount(ref)
  \/ ParentUnmount

NextPlayback ==
  MountNext \/ AdapterNext \/ SyncNext \/ OverlayNext \/ EventNext \/ GestureNext

SpecPlayback == InitPlayer /\ [][NextPlayback]_vars

\* Playback with a poll that ticks on (setInterval, line 601) and player
\* queries that are answered (lines 603-604).
PollFairness ==
  /\ WF_vars(\E g \in syncIntervals : SyncTick(g))
  /\ WF_vars(\E call \in calls : PausedSettle(call))
  /\ WF_vars(\E call \in calls : TimeSettle(call))

SpecPlaybackFair == SpecPlayback /\ PollFairness

\* The component's aspect ratio and layout, both provider scripts loaded.
InitAspect ==
  /\ AppInit(<<>>)
  /\ windowVimeo = TRUE
  /\ windowYT = TRUE
  /\ PlayerInit
  /\ CalcIdle

ReadyNext ==
  \/ \E call \in calls, allowed \in BOOLEAN : VimeoReady(call, allowed)
  \/ \E call \in calls, allowed \in BOOLEAN : YTReady(call, allowed)
  \/ \E call \in calls : DurationSettle(call)

NextAspect == ParentNext \/ ReadyNext \/ AspectNext

\* The cover layout under a changing aspect ratio and a changing container.
NextCover == ParentNext \/ MetaNext \/ LayoutNext

SpecCover == InitAspect /\ [][NextCover]_vars

SpecAspect == InitAspect /\ [][NextAspect]_vars

\* The metadata answer and the player dimensions of a square video.
SquareInfo ==
  [ok |-> TRUE, title |-> FALSE, width |-> Num(4), height |-> Num(4),
   thumb |-> FALSE]

SquareNext ==
  \/ \E ref \in VideoRefs : InfoFetchSettle(ref, SquareInfo)
  \/ \E call \in calls : DimsSettle(call, Num(4), Num(4))

\* Playback and layout together: the component mounted once and kept, both
\* provider scripts loaded, a video that turns out to be square, a window
\* that is resized.
NextFrame ==
  \/ \E ref \in VideoRefs : ParentMount(ref)
  \/ ReadyNext
  \/ SyncNext
  \/ OverlayNext
  \/ EventNext
  \/ GestureNext
  \/ SquareNext
  \/ LayoutNext

SpecFrame == InitAspect /\ [][NextFrame]_vars

\* calculateDimensions over the inputs CalcInputs.
InitLayout ==
  /\ AppInit(<<>>)
  /\ windowVimeo = TRUE
  /\ windowYT = TRUE
  /\ PlayerInit
  /\ calcIn \in CalcInputs
  /\ calcOut = NotCalculated

SpecLayout == InitLayout /\ [][Calculate]_vars

(***************************************************************************)
(* Resolution of the query (SpecResolve)                                   *)
(***************************************************************************)

\* The query string without its leading "?", percent-decoded and trimmed;
\* the empty string when decoding throws.
DecodedQuery == trim(decodeURIComponent(substring1(search)).val)

QueryDecodes == Len(search) > 1 /\ decodeURIComponent(substring1(search)).ok

AllDigits(s) == s # <<>> /\ \A i \in DOMAIN s : s[i] \in Digits

\* C1: whenever the decoded, trimmed query consists only of digits d, the
\* video reference is {id: d, provider: vimeo} in every state, the first
\* one included (it is never null), and no oEmbed request is ever issued.
C1_DigitQueryIsVimeoId ==
  (QueryDecodes /\ AllDigits(DecodedQuery)) =>
    /\ videoData = [id |-> DecodedQuery, provider |-> "vimeo"]
    /\ oembedCount = 0
    /\ oembed.st = "idle"
    /\ ~appError

\* The query ?%2012%20 has been resolved to the Vimeo id 12 and App is
\* mounted.
C1_Witness ==
  /\ search = QPaddedDigits
  /\ mounted
  /\ videoData = [id |-> <<"1", "2">>, provider |-> "vimeo"]
  /\ phase = "mounted"

\* C2: for every query made of a recognized YouTube form (youtube.com/watch?v=,
\* youtube.com/embed/, youtube.com/v/, youtu.be/) followed by an 11-character
\* id and by further parameters, the video reference is, from the first state
\* on, {id: the 11 characters that follow the form, provider: youtube}.
\* The pattern of line 20 does not guarantee it: its first alternative
\* [^\/]+\/.+\/ and its third alternative .*[?&]v= are greedy and prefer the
\* last slash of the query, so a parameter value that is itself a URL with a
\* path moves the capture to that path.
C2_YoutubeIdFollowsPrefix ==
  \A pre \in YtPrefixes, shape \in YtShapes, id \in YtIds, suf \in YtSuffixes :
    search = <<"?">> \o pre \o shape \o id \o suf =>
      videoData = [id |-> id, provider |-> "youtube"]

\* The query takes the asynchronous path: it decodes, holds "vimeo.com" and
\* matches neither the digit rule nor the YouTube pattern.
NeedsOEmbed ==
  /\ QueryDecodes
  /\ includes(DecodedQuery, VimeoCom)
  /\ ~AllDigits(DecodedQuery)
  /\ ~ytMatch(DecodedQuery).matched

\* The oEmbed answer r is ok, parses, and carries a video_id.
CarriesVideoId(r) ==
  r.kind = "json" /\ r.video_id.t = "number" /\ r.video_id.v > 0

\* C3: for a query on the asynchronous path the reference is null until the
\* oEmbed request has settled; once it has settled the reference is
\* {id: String(video_id), provider: vimeo} when the response was ok and
\* carried a video_id, and the configured default in every other case (the
\* fetch rejected, the response was not ok, its body was not JSON or had no
\* video_id); no exception leaves App.
C3_AsyncResolution ==
  NeedsOEmbed =>
    /\ ~appError
    /\ oembed.st # "done" => videoData = Null
    /\ (oembed.st = "done" /\ CarriesVideoId(oembed.resp)) =>
         /\ videoData.provider = "vimeo"
         /\ oembed.resp.video_id = Num(12345) =>
              videoData.id = <<"1", "2", "3", "4", "5">>
         /\ oembed.resp.video_id = Num(76979871) =>
              videoData.id = <<"7", "6", "9", "7", "9", "8", "7", "1">>
    /\ (oembed.st = "done" /\ ~CarriesVideoId(oembed.resp)) =>
         videoData = [id |-> VIDEO_CONFIG_id, provider |-> "vimeo"]

\* ?https://vimeo.com/showcase/12345 has been resolved to the id 12345 that
\* the oEmbed answer carried.
C3_Witness ==
  /\ search = QVimeoShowcase
  /\ oembed.st = "done"
  /\ oembed.resp.video_id = Num(12345)
  /\ videoData = [id |-> <<"1", "2", "3", "4", "5">>, provider |-> "vimeo"]

\* Queries that are malformed (their percent-encoding cannot be decoded) or
\* that no rule recognizes.
MalformedQueries == { QLonePercent, QCutEscape, QVimeoBadEscape }
UnrecognizedQueries == { <<"?">>, QOther, QDigitsLetter, QBlank, QYoutubeShort }

\* C4: a malformed or unrecognized query never produces an error, and the
\* reference is the configured default.
C4_NoErrorFromQuery ==
  search \in MalformedQueries \cup UnrecognizedQueries =>
    /\ ~appError
    /\ videoData = [id |-> VIDEO_CONFIG_id, provider |-> "vimeo"]

(***************************************************************************)
(* App and the player it mounts (Spec)                                     *)
(***************************************************************************)

\* C5: at most one oEmbed request is issued in an execution, and a reference
\* that is not null is never assigned another value.
C5_ResolvedOnce ==
  /\ [](oembedCount <= 1)
  /\ [][videoData # Null => videoData' = videoData]_vars

\* The one request has settled and the reference it produced is in place.
C5_Witness ==
  /\ oembedCount = 1
  /\ oembed.st = "done"
  /\ videoData = [id |-> <<"1", "2", "3", "4", "5">>, provider |-> "vimeo"]
  /\ phase = "mounted"

\* C6: while the reference is null or App is not mounted, no player
\* component is mounted and no provider player has been constructed; a
\* mounted component holds exactly App's reference, and every run of the
\* initialization effect and every provider player was made for that
\* reference's id and provider.
C6_PlayerOnlyForReference ==
  /\ (videoData = Null \/ ~mounted) =>
       phase = "unmounted" /\ inits = <<>> /\ players = <<>>
  /\ phase = "mounted" => props = videoData
  /\ \A g \in DOMAIN inits :
       inits[g].videoId = videoData.id /\ inits[g].provider = videoData.provider
  /\ \A p \in DOMAIN players :
       players[p].videoId = videoData.id /\ players[p].kind = videoData.provider

\* After the asynchronous resolution App has mounted the component and a
\* Vimeo player for the resolved id is ready.
C6_Witness ==
  /\ search = QVimeoShowcase
  /\ phase = "mounted"
  /\ \E p \in DOMAIN players :
       /\ players[p].kind = "vimeo"
       /\ players[p].videoId = <<"1", "2", "3", "4", "5">>
       /\ players[p].ready

(***************************************************************************)
(* The cover computation (SpecLayout)                                      *)
(***************************************************************************)

\* C7: for a positive container width and height and a positive aspect
\* n/d, calculateDimensions returns whole numbers W >= containerWidth and
\* H >= containerHeight with W/H equal to n/d up to the rounding of each
\* side to the next whole pixel: (W - 1)/H < n/d < W/(H - 1).
C7_CoverDimensions ==
  calcOut.done =>
    LET W == calcOut.width.v
        H == calcOut.height.v
    IN  /\ ~calcOut.width.nan
        /\ ~calcOut.height.nan
        /\ W >= calcIn.w
        /\ H >= calcIn.h
        /\ (W - 1) * calcIn.d < calcIn.n * H
        /\ calcIn.n * (H - 1) < W * calcIn.d

\* A portrait container 375 x 812 under a 16:9 video: the height is matched
\* and the width overflows, 1473 x 829.
C7_Witness ==
  /\ calcOut.done
  /\ calcIn = [w |-> 375, h |-> 812, n |-> 16, d |-> 9]
  /\ calcOut.width = Px(1473)
  /\ calcOut.height = Px(829)

(***************************************************************************)
(* The aspect ratio (SpecAspect)                                           *)
(***************************************************************************)

\* C8: the aspect ratio the component holds is a strictly positive number in
\* every state, whatever width and height the metadata response or the
\* player's dimension query delivers. The test of lines 440, 454 and 509,
\* w && h, rejects only falsy values (undefined, 0, NaN, ""): a negative
\* number or a non-numeric string passes it, and the quotient is stored.
C8_AspectRatioPositive ==
  /\ ~ui.videoAspectRatio.nan
  /\ ui.videoAspectRatio.n > 0
  /\ ui.videoAspectRatio.d > 0

(***************************************************************************)
(* The component's timers (SpecPlayer)                                     *)
(***************************************************************************)

\* The queries a tick of the state-sync poll sends to a Vimeo player.
SyncQueries == {"getPaused", "getCurrentTime"}

\* C9: the state-sync poll of a run of the initialization effect is not
\* scheduled once that run has been cleaned up (by the component's teardown
\* or by a change of reference), so it cannot fire; and every query a tick
\* sends goes to a player that has not been torn down.
C9_SyncPollStopsAtCleanup ==
  /\ [](\A g \in syncIntervals : ~inits[g].cleaned)
  /\ [](phase = "torndown" => syncIntervals = {})
  /\ [][\A c \in calls' \ calls :
          c.kind \in SyncQueries =>
            ~players[c.p].released /\ ~inits[c.g].cleaned]_vars

\* The poll had synchronized the progress to the end of the video; then the
\* component was torn down and the poll is gone.
C9_Witness ==
  /\ phase = "torndown"
  /\ inits # <<>>
  /\ \A g \in DOMAIN inits : inits[g].cleaned
  /\ ui.progress = MaxTime
  /\ syncIntervals = {}

\* C10: after the component's teardown no timer callback is pending: not the
\* overlay's hide timer, not the state-sync poll, not the YouTube-ready
\* poll. The cleanup of lines 617-623 clears syncInterval and
\* checkYTInterval; nothing clears controlsTimeoutRef, and the component has
\* no other unmount cleanup that does.
C10_NoTimerAfterTeardown ==
  phase = "torndown" =>
    /\ hideTimer = {}
    /\ syncIntervals = {}
    /\ ytPolls = {}

(***************************************************************************)
(* Late asynchronous results (SpecAspect)                                  *)
(***************************************************************************)

\* C11: a result that arrives after the initialization that requested it
\* was cleaned up, or after the reference it was requested for was replaced,
\* writes no component state. A metadata response is stale when its
\* reference is no longer the component's; a player's answer is stale when
\* the run of the initialization effect that asked is cleaned up. React
\* drops the updates of an unmounted component, but nothing in fetchInfo
\* (lines 428-462) or in the promise handlers of lines 507-511 and 603-604
\* tests that the reference is still the one the request was made for.
C11_StaleResultsDropped ==
  [][/\ \A ref \in infoFetches \ infoFetches' : ref # props => ui' = ui
     /\ \A c \in calls \ calls' : inits[c.g].cleaned => ui' = ui]_vars

(***************************************************************************)
(* Playback and overlay (SpecPlayback)                                     *)
(***************************************************************************)

\* C12: in every state in which isPlaying is false the control overlay is
\* visible, whatever the hide timer has done: in the state the component is
\* mounted with, and whenever playback is paused.
C12_OverlayVisibleWhenPaused ==
  ~ui.isPlaying => isControlsVisible(ui)

\* The video has been played and paused again by the user, the hide timer
\* has fired and cleared showControls, and the overlay is visible.
C12_Witness ==
  /\ phase = "mounted"
  /\ ~ui.isPlaying
  /\ ~ui.showControls
  /\ hideTimer = {}
  /\ isControlsVisible(ui)
  /\ \E p \in DOMAIN players :
       /\ refs.playerRef = p
       /\ players[p].plays = MaxPlays
       /\ ~Playing(p)

\* The 'ended' handler of the player p runs in this step.
EndedHandled(p) ==
  \/ VimeoEnded(p)
  \/ YTStateChange(p) /\ players[p].state = 0

\* C13: when the provider reports the end of playback (the Vimeo 'ended'
\* event, the YouTube state 0) to the mounted component, the step leaves
\* progress at 0, isPlaying false and the overlay visible, and the player
\* has been sent the seek to 0 and the pause: it is at position 0 and not
\* playing.
C13_EndedResets ==
  [][\A p \in DOMAIN players :
       (Live /\ EndedHandled(p)) =>
         /\ ui'.progress = 0
         /\ ~ui'.isPlaying
         /\ isControlsVisible(ui')
         /\ players'[p].time = 0
         /\ players'[p].paused
         /\ players'[p].state = 2]_vars

\* A Vimeo player has played to the end and its 'ended' handler has run:
\* the player is back at 0 and paused, the component shows 0 and not
\* playing.
C13_Witness ==
  /\ phase = "mounted"
  /\ ui.progress = 0
  /\ ~ui.isPlaying
  /\ isControlsVisible(ui)
  /\ \E p \in DOMAIN players :
       /\ players[p].kind = "vimeo"
       /\ players[p].state = 2
       /\ players[p].time = 0
       /\ players[p].paused

\* The player p is made ready in this step.
BecomesReady(p) == ~players[p].ready /\ players'[p].ready

\* A user gesture runs togglePlay, or the getPaused() it asked resolves.
ToggleStep ==
  \/ \E ok \in BOOLEAN : togglePlay(ok)
  \/ \E call \in calls, ok \in BOOLEAN : ToggleSettle(call, ok)

\* C14: a player is sent one play command when it becomes ready; every other
\* play command comes from togglePlay, none from the poll, a timer or an
\* event handler. While the component's player has had no play command but
\* that first one and is not playing (the browser blocked it, or playback
\* has stopped since), isPlaying is false.
C14_AutoplayOnceNoRetry ==
  /\ [][\A p \in DOMAIN players :
          /\ BecomesReady(p) => players'[p].plays = 1
          /\ players'[p].plays > players[p].plays =>
               BecomesReady(p) \/ ToggleStep]_vars
  /\ [](\A p \in DOMAIN players :
          (/\ Live
           /\ refs.playerRef = p
           /\ players[p].plays <= 1
           /\ ~Playing(p)
           /\ players[p].state # 0) => ~ui.isPlaying)

\* Autoplay was blocked: the player is ready, has had its one play command
\* and has not moved; the component shows not playing, the overlay visible.
C14_Witness ==
  /\ phase = "mounted"
  /\ ui.duration = MaxTime
  /\ ~ui.isPlaying
  /\ isControlsVisible(ui)
  /\ \E p \in DOMAIN players :
       /\ refs.playerRef = p
       /\ players[p].ready
       /\ players[p].plays = 1
       /\ ~Playing(p)
       /\ players[p].time = 0
       /\ players[p].state = -1

\* C15: a playback command that fails leaves the state at the player's
\* actual state: when the play() that togglePlay sends is rejected,
\* isPlaying is not true after the step; when handleSeek's seek is not
\* applied (there is no player, the YouTube player is not ready, or
\* setCurrentTime is rejected), progress does not move to the requested
\* time. togglePlay sets isPlaying to what it asked for without waiting for
\* the command (lines 646-647, 662-663), and handleSeek sets progress
\* before it looks at the player (line 672).
C15_FailedCommandNotReflected ==
  [][/\ \A call \in calls :
          (Live /\ players[call.p].paused /\ ToggleSettle(call, FALSE)) =>
            ~ui'.isPlaying
     /\ \A time \in SeekValues(ui) :
          (/\ time # ui.progress
           /\ handleSeek(time, FALSE)
           /\ \/ refs.playerRef = 0
              \/ players'[refs.playerRef].time # time) =>
            ui'.progress # time]_vars


\* C16: in every state of a mounted component the progress value given to
\* the seek control lies in [0, duration]. Nothing in the component clamps
\* it: the input receives value={progress} as stored (line 765), and
\* handleSeek, the poll and the timeupdate handler store what they are
\* given (lines 672, 524, 608).
C16_ProgressWithinDuration ==
  Live => (0 <= ui.progress /\ ui.progress <= ui.duration)


(***************************************************************************)
(* Teardown (SpecPlayer)                                                   *)
(***************************************************************************)

\* C17: teardown is safe whatever the initialization had reached: once the
\* component is torn down every run of the initialization effect is cleaned
\* up, every player that was constructed is released, playerRef is null and
\* the YouTube readiness poll is stopped, so that no player is constructed
\* afterwards; and a run cleaned up by a change of reference has released
\* its player too.
C17_TeardownSafe ==
  /\ phase = "torndown" =>
       /\ \A g \in DOMAIN inits : inits[g].cleaned
       /\ \A p \in DOMAIN players : players[p].released
       /\ refs.playerRef = 0
       /\ ytPolls = {}
  /\ \A g \in DOMAIN inits :
       inits[g].cleaned =>
         /\ inits[g].vimeoPlayer # 0 => players[inits[g].vimeoPlayer].released
         /\ inits[g].ytPlayer # 0 => players[inits[g].ytPlayer].released

\* The component was torn down while the YouTube readiness poll was still
\* running: the run is for YouTube, set the poll and never constructed a
\* player.
C17_Witness ==
  /\ phase = "torndown"
  /\ Len(inits) = 1
  /\ inits[1].provider = "youtube"
  /\ inits[1].ytPlayer = 0
  /\ refs.checkYTInterval = 1
  /\ players = <<>>
  /\ refs.playerRef = 0


(***************************************************************************)
(* Order and totality of the resolution (SpecResolve)                      *)
(***************************************************************************)

\* C18: every query gets a result, by the first rule that applies to its
\* decoded, trimmed text: all digits, the Vimeo id, with no request; else a
\* match of the YouTube pattern, a YouTube reference, with no request, even
\* when the text holds "vimeo.com"; else a text holding "vimeo.com", null
\* until the oEmbed request has settled; else (no query, an empty query, any
\* other text) the configured default, with no request. No query makes App
\* fail. The order holds for every query that decodes; a query whose
\* percent-encoding is malformed gets no result at all, because
\* decodeURIComponent throws out of the initializer (line 12).
C18_PriorityOrderTotal ==
  /\ ~appError
  /\ IF AllDigits(DecodedQuery) THEN
       /\ videoData = [id |-> DecodedQuery, provider |-> "vimeo"]
       /\ oembedCount = 0
     ELSE IF ytMatch(DecodedQuery).matched THEN
       /\ videoData.provider = "youtube"
       /\ Len(videoData.id) = YT_ID_LEN
       /\ oembedCount = 0
     ELSE IF includes(DecodedQuery, VimeoCom) THEN
       /\ oembed.st # "done" => videoData = Null
       /\ oembed.st = "done" => videoData.provider = "vimeo"
     ELSE
       /\ videoData = [id |-> VIDEO_CONFIG_id, provider |-> "vimeo"]
       /\ oembedCount = 0


(***************************************************************************)
(* The cover computation against its reference (SpecLayout)                *)
(***************************************************************************)

\* X is the real number num/den rounded up to a whole number, den > 0.
IsCeilOf(X, num, den) == (X - 1) * den < num /\ num <= X * den

\* C19: for a positive container cw x ch and a positive aspect n/d the
\* result is the reference cover computation: when cw/ch > n/d the width is
\* ceil(cw * 1.02) and the height ceil((cw / (n/d)) * 1.02); otherwise,
\* equality included, the height is ceil(ch * 1.02) and the width
\* ceil((ch * (n/d)) * 1.02). 1920 x 1080 at 16:9 fits the height
\* (1959 x 1102); 375 x 812 at 16:9 fits the height and the width overflows
\* the container (1473 x 829).
C19_ReferenceCover ==
  calcOut.done =>
    LET cw == calcIn.w
        ch == calcIn.h
        n == calcIn.n
        d == calcIn.d
        W == calcOut.width.v
        H == calcOut.height.v
    IN  /\ ~calcOut.width.nan /\ ~calcOut.height.nan
        /\ IF cw * d > n * ch
           THEN /\ IsCeilOf(W, 102 * cw, 100)
                /\ IsCeilOf(H, 102 * cw * d, 100 * n)
           ELSE /\ IsCeilOf(H, 102 * ch, 100)
                /\ IsCeilOf(W, 102 * ch * n, 100 * d)
        /\ calcIn = [w |-> 1920, h |-> 1080, n |-> 16, d |-> 9] =>
             W = 1959 /\ H = 1102
        /\ calcIn = [w |-> 375, h |-> 812, n |-> 16, d |-> 9] =>
             W = 1473 /\ H = 829 /\ W > cw

\* The landscape container 1920 x 1080 has exactly the video's ratio 16:9:
\* the comparison is an equality, the height is matched, 1959 x 1102.
C19_Witness ==
  /\ calcOut.done
  /\ calcIn = [w |-> 1920, h |-> 1080, n |-> 16, d |-> 9]
  /\ calcOut.width = Px(1959)
  /\ calcOut.height = Px(1102)


(***************************************************************************)
(* What moves the embed geometry (SpecFrame)                               *)
(***************************************************************************)

\* A step of the mounted component touches the playback or overlay state:
\* isPlaying, progress, duration, showControls, the hide timer, the refs,
\* the players or the calls in flight. Every step of the synchronizer (poll
\* tick, its answers, playback moving on), of a player event (play, pause,
\* timeupdate, ended, state change), of a gesture (togglePlay, handleSeek)
\* and of the overlay (interaction, hide timer) is one.
PlaybackOrOverlayStep ==
  /\ phase' = phase
  /\ \/ ui'.isPlaying # ui.isPlaying
     \/ ui'.progress # ui.progress
     \/ ui'.duration # ui.duration
     \/ ui'.showControls # ui.showControls
     \/ hideTimer' # hideTimer
     \/ refs' # refs
     \/ players' # players
     \/ calls' # calls

\* C20: the stored embed width and height change only on a layout trigger.
\* A step that updates the playback state or the overlay leaves
\* videoDimensions as it was. When videoDimensions changes, the window was
\* resized in that step or the ResizeObserver delivered an observation; and
\* an observation becomes pending only when the component mounts, the
\* window is resized or the aspect ratio changes.
C20_GeometryOnlyOnLayout ==
  [][/\ PlaybackOrOverlayStep => ui'.videoDimensions = ui.videoDimensions
     /\ ui'.videoDimensions # ui.videoDimensions =>
          \/ viewport' # viewport
          \/ roPending /\ ~roPending'
          \/ phase' # phase
     /\ (~roPending /\ roPending') =>
          \/ viewport' # viewport
          \/ ui'.videoAspectRatio # ui.videoAspectRatio
          \/ phase' # phase]_vars

\* The video is playing at its end, the user has just interacted, and the
\* geometry is the one computed when the window became 375 x 812: none of
\* the playback and overlay steps since has touched it.
C20_Witness ==
  /\ Live
  /\ viewport = [w |-> 375, h |-> 812]
  /\ ui.videoAspectRatio = Frac(16, 9)
  /\ ui.videoDimensions = [width |-> Px(1473), height |-> Px(829)]
  /\ ~roPending
  /\ ui.isPlaying
  /\ ui.progress = MaxTime
  /\ ui.showControls


(***************************************************************************)
(* The geometry follows the container and the aspect ratio (SpecCover)     *)
(***************************************************************************)

\* C21: in a mounted component with no layout callback pending (the
\* ResizeObserver has delivered its observation), the stored geometry is
\* calculateDimensions of the container's present size and the present
\* aspect ratio, whatever resizes and aspect-ratio updates came before. An
\* aspect-ratio change alone makes an observation pending (the observer is
\* created anew, line 424), and a resize computes with the ratio of the
\* latest render (line 400).
C21_GeometryConverges ==
  (Live /\ ~roPending) =>
    ui.videoDimensions =
      calculateDimensions(viewport.w, viewport.h, ui.videoAspectRatio)

\* The window has become 375 x 812 and the metadata has made the video
\* square; every callback has run and the geometry is that of a square
\* video covering the portrait window, 829 x 829.
C21_Witness ==
  /\ Live
  /\ ~roPending
  /\ viewport = [w |-> 375, h |-> 812]
  /\ ui.videoAspectRatio = Frac(1, 1)
  /\ ui.videoDimensions = [width |-> Px(829), height |-> Px(829)]


(***************************************************************************)
(* The YouTube readiness poll (SpecPlayer)                                 *)
(***************************************************************************)

\* The YouTube players constructed so far.
YTPlayers == {p \in DOMAIN players : players[p].kind = "youtube"}

\* C22: a YouTube player is constructed only in a state where the API is
\* loaded. A run for YouTube that has no player and is not cleaned up has
\* its poll set, however long the API stays away; a run that has its player
\* has no poll, and keeps that one player: the tick that finds the API
\* clears the poll and constructs exactly one player. A cleaned-up run has
\* no poll and gets no player, and after teardown no poll is set and no
\* player is constructed.
C22_YouTubePoll ==
  /\ [](\A g \in DOMAIN inits :
          /\ (inits[g].provider = "youtube" /\ inits[g].ytPlayer = 0
                /\ ~inits[g].cleaned) => g \in ytPolls
          /\ inits[g].ytPlayer # 0 => g \notin ytPolls
          /\ inits[g].cleaned => g \notin ytPolls)
  /\ [](phase = "torndown" => ytPolls = {})
  /\ [](Cardinality(YTPlayers) =
          Cardinality({g \in DOMAIN inits : inits[g].ytPlayer # 0}))
  /\ [][/\ Len(players') >= Len(players)
        /\ Len(players') <= Len(players) + 1
        /\ (Len(players') > Len(players)
              /\ players'[Len(players')].kind = "youtube") => windowYT
        /\ Len(players') > Len(players) => phase' = "mounted"
        /\ \A g \in DOMAIN inits :
             /\ inits[g].ytPlayer # 0 => inits'[g].ytPlayer = inits[g].ytPlayer
             /\ inits[g].cleaned => inits'[g].ytPlayer = inits[g].ytPlayer
             /\ (inits[g].ytPlayer = 0 /\ inits'[g].ytPlayer # 0) =>
                  /\ g \in ytPolls
                  /\ g \notin ytPolls'
                  /\ Len(players') = Len(players) + 1]_vars

\* The component was mounted for YouTube before the API had loaded; the API
\* has loaded since, a tick of the poll has constructed the one player and
\* cleared the poll.
C22_Witness ==
  /\ Live
  /\ Len(inits) = 1
  /\ inits[1].provider = "youtube"
  /\ refs.checkYTInterval = 1
  /\ inits[1].ytPlayer = 1
  /\ Len(players) = 1
  /\ ytPolls = {}
  /\ windowYT


(***************************************************************************)
(* The overlay and its hide timer (SpecPlayback)                           *)
(***************************************************************************)

\* togglePlay gets past its early returns (lines 639 and 654): there is a
\* player, and a YouTube player has its methods.
ToggleHandlesClick ==
  /\ refs.playerRef # 0
  /\ props.provider = "youtube" => players[refs.playerRef].ready

C24_HiddenOnlyWhilePlaying ==
  /\ [][(Live /\ ui.isPlaying /\ hideTimer' # hideTimer
           /\ hideTimer' \subseteq hideTimer) =>
          ~isControlsVisible(ui')]_vars
  /\ []((Live /\ ~isControlsVisible(ui)) =>
          ui.isPlaying /\ ~ui.showControls /\ hideTimer = {})

\* The video is playing, the user had interacted, the hide timer has fired
\* since and the overlay is hidden.
C24_Witness ==
  /\ Live
  /\ ui.isPlaying
  /\ refs.controlsTimeoutRef # 0
  /\ hideTimer = {}
  /\ ~ui.showControls
  /\ ~isControlsVisible(ui)


\* C25: while isPlaying is false no hide timer is pending in the mounted
\* component: a transition to paused cancels the pending one and an
\* interaction during the pause sets none, so none can expire while paused.
\* showControlsTemporarily sets the timeout whatever isPlaying is (lines
\* 630-634), and no handler that sets isPlaying false clears it (lines 523,
\* 526, 553, 605, 650, 658).
C25_NoHideTimerWhilePaused ==
  (Live /\ ~ui.isPlaying) => hideTimer = {}


(***************************************************************************)
(* The YouTube player state as the play state (SpecPlayback)               *)
(***************************************************************************)

\* C26: whenever the current YouTube player passes its state to the
\* component, by a state-change notification or in a poll tick, isPlaying
\* becomes true for the states 1 and 3 and false for -1, 0, 2 and 5. The
\* poll does so (line 611); onStateChange sets isPlaying for 1, 2 and 0
\* only (lines 551-558) and leaves it as it was for 3, -1 and 5.
C26_BufferingCountsAsPlaying ==
  [][\A p \in DOMAIN players :
       (/\ Live
        /\ refs.playerRef = p
        /\ players[p].kind = "youtube"
        /\ \/ players'[p].told # players[p].told
           \/ \E g \in syncIntervals : SyncTick(g) /\ players[p].ready) =>
         ui'.isPlaying = (players[p].state \in {1, 3})]_vars


(***************************************************************************)
(* Convergence of the synchronizer (SpecPlaybackFair)                      *)
(***************************************************************************)

\* The player p has a state to report: a Vimeo player answers getPaused()
\* and getCurrentTime() from its construction on, a YouTube player has
\* getCurrentTime and getPlayerState once it is ready (the test of line
\* 605).
Answers(p) == players[p].kind = "youtube" => players[p].ready

\* The mounted component agrees with its player: isPlaying is the player's
\* play state and progress its position.
Synced ==
  (Live /\ refs.playerRef # 0 /\ Answers(refs.playerRef)) =>
    /\ ui.isPlaying = Playing(refs.playerRef)
    /\ ui.progress = players[refs.playerRef].time

AlivePlayers == {p \in DOMAIN players : ~players[p].released}

\* C28: at most one player is alive in any state, and it belongs to the
\* run of the initialization effect that is not cleaned up; playerRef is
\* null or that player; the state-sync poll and the readiness poll are set
\* for that run only. The step that starts a new run for a changed
\* reference leaves the earlier run cleaned up, its player released, and
\* isPlaying false and progress 0.
C28_OnePlayerAlive ==
  /\ [](Cardinality(AlivePlayers) <= 1)
  /\ [](\A p \in AlivePlayers :
          /\ inits # <<>>
          /\ ~inits[CurrentInit].cleaned
          /\ p \in {inits[CurrentInit].vimeoPlayer, inits[CurrentInit].ytPlayer})
  /\ [](refs.playerRef # 0 => refs.playerRef \in AlivePlayers)
  /\ [](\A g \in syncIntervals \cup ytPolls :
          g = CurrentInit /\ ~inits[g].cleaned)
  /\ [][Len(inits') > Len(inits) =>
          /\ \A g \in DOMAIN inits :
               /\ inits'[g].cleaned
               /\ g \notin syncIntervals' \cup ytPolls'
          /\ \A p \in DOMAIN players : players'[p].released
          /\ ~ui'.isPlaying
          /\ ui'.progress = 0]_vars

\* The reference was changed while the first player was ready: that player
\* is released and the second run's player is the one alive, ready, and in
\* playerRef.
C28_Witness ==
  /\ Live
  /\ Len(inits) = 2
  /\ inits[1].cleaned
  /\ Len(players) = 2
  /\ players[1].ready
  /\ players[1].released
  /\ players[2].ready
  /\ AlivePlayers = {2}
  /\ refs.playerRef = 2


(***************************************************************************)
(* Vimeo without its SDK (SpecPlayback)                                    *)
(***************************************************************************)

\* The run of the initialization effect for the mounted component's Vimeo
\* reference found no SDK and constructed nothing.
VimeoSdkMissed ==
  /\ Live
  /\ inits # <<>>
  /\ inits[CurrentInit].provider = "vimeo"
  /\ inits[CurrentInit].vimeoPlayer = 0

\* C29: a run for a Vimeo reference that found no SDK never gets a player,
\* whether or not the SDK loads later: no player is constructed, no poll
\* waits for the SDK, playerRef stays null, isPlaying stays false, and a
\* click changes nothing (togglePlay returns at line 639).
C29_VimeoNoRetry ==
  /\ [](VimeoSdkMissed =>
          /\ players = <<>>
          /\ refs.playerRef = 0
          /\ ytPolls = {}
          /\ ~ui.isPlaying
          /\ \A c \in calls : c.kind # "toggle")
  /\ [][VimeoSdkMissed =>
          /\ phase' = "mounted" => VimeoSdkMissed'
          /\ ~(\E ok \in BOOLEAN : togglePlay(ok))]_vars

\* The component was mounted for Vimeo without the SDK; the SDK has loaded
\* since and the user has interacted, and there is still no player.
C29_Witness ==
  /\ VimeoSdkMissed
  /\ windowVimeo
  /\ ui.showControls
  /\ players = <<>>
  /\ refs.playerRef = 0

====
